---- MODULE Spec2Model ----
(***************************************************************************)
(* A model of mcbe-pack-merge: mergePacks of src/src/core.ts with the      *)
(* built-in strategy of src/src/core_plugin.ts, and the older, plugin-free *)
(* mergePacks of src/src/index.ts.                                         *)
(*                                                                         *)
(* Strings that the code takes apart (the lines of a .lang file) are       *)
(* sequences of tokens; a path is the sequence of its components; a        *)
(* version "a.b.c" is the triple <<a, b, c>>; a JavaScript Map is the      *)
(* sequence of its [key, value] entries in insertion order.                *)
(***************************************************************************)
EXTENDS Integers, Sequences, FiniteSets, TLC

\* ------------------------------------------------------------- bounds
\* The most archives one run is given.
MaxPacks == 2
\* The most content files an identifier-keyed subdirectory holds.
MaxFiles == 2
\* The most calls of mergePacks one process makes (SpecRerun only).
MaxRuns == 2

\* ------------------------------------------------------- Map<K, V>
Has(map, key) == \E i \in 1..Len(map) : map[i].key = key

Get(map, key) == map[CHOOSE i \in 1..Len(map) : map[i].key = key].value

Set(map, key, value) ==
  IF Has(map, key)
  THEN [i \in 1..Len(map) |->
          IF map[i].key = key THEN [key |-> key, value |-> value] ELSE map[i]]
  ELSE Append(map, [key |-> key, value |-> value])

Keys(map) == {map[i].key : i \in 1..Len(map)}

\* ------------------------------------------------------- versions
\* semver.gt on three-part versions: numeric, component by component.
SemverGt(a, b) ==
  \/ a[1] > b[1]
  \/ a[1] = b[1] /\ a[2] > b[2]
  \/ a[1] = b[1] /\ a[2] = b[2] /\ a[3] > b[3]

SemverGte(a, b) == a = b \/ SemverGt(a, b)

\* The exclusive upper end of the range ^r: the next version that changes
\* the left-most non-zero component of r.
CaretCeiling(r) ==
  IF r[1] > 0 THEN <<r[1] + 1, 0, 0>>
  ELSE IF r[2] > 0 THEN <<0, r[2] + 1, 0>>
  ELSE <<0, 0, r[3] + 1>>

\* semver.satisfies(v, "^" + r).
SatisfiesCaret(v, r) == SemverGte(v, r) /\ SemverGt(CaretCeiling(r), v)

\* let minEngineVersionStr = "1.21.50"
Baseline == <<1, 21, 50>>

\* --------------------------------------------------------- messages
NoPath == <<>>

DuplicateMsg(key, at, original) ==
  [kind |-> "duplicate", key |-> key, at |-> at, original |-> original,
   reason |-> "", a |-> NoPath, b |-> NoPath]

ManualMsg(subject, reason) ==
  [kind |-> "manual", key |-> "", at |-> subject, original |-> NoPath,
   reason |-> reason, a |-> NoPath, b |-> NoPath]

IncompatibleMsg(moduleName, version, existingVer) ==
  [kind |-> "incompatible", key |-> moduleName, at |-> NoPath,
   original |-> NoPath, reason |-> "", a |-> version, b |-> existingVer]

\* ----------------------------------------------------------- input
\* The archives' base names, by position in the input list.
PackNames == <<"A", "B", "C", "D">>

\* The names of the content files of a subdirectory, by position in its
\* listing.
FileNames == <<"f1.json", "f2.json", "f3.json", "f4.json">>

Identifiers == {"my:stone", "my:dirt"}

\* A content file without any top-level key that starts with "minecraft:".
NoRootKey == "<no minecraft: key>"

PlainManifest ==
  [ok |-> TRUE, min_engine_version |-> Baseline, entry |-> <<>>,
   dependencies |-> <<>>]

File(name, isDir, id, lines) ==
  [name |-> name, isDir |-> isDir, id |-> id, lines |-> lines, format |-> "",
   entries |-> <<>>]

\* A model file: its format_version and the identifier of its one geometry.
ModelFile(name, format, id) ==
  [name |-> name, isDir |-> FALSE, id |-> id, lines |-> <<>>, format |-> format,
   entries |-> <<>>]

\* A file of a textures subdirectory: for flipbook_textures.json the
\* [key, value] of its array's objects (key is atlas_tile), for
\* item_texture.json and terrain_texture.json those of texture_data.
TextureFile(name, entries) ==
  [name |-> name, isDir |-> FALSE, id |-> "", lines |-> <<>>, format |-> "",
   entries |-> entries]

SubDir(name, files) == [name |-> name, files |-> files]

PackModule(name, manifest, subdirs) ==
  [name |-> name, manifest |-> manifest, subdirs |-> subdirs]

\* Sequences of at most n elements of S.
SeqUpTo(S, n) == UNION {[1..k -> S] : k \in 0..n}

\* A list of archives whose i-th archive holds the modules mods[i].
Archives(mods) ==
  [i \in 1..Len(mods) |-> [name |-> PackNames[i], modules |-> mods[i]]]

\* The archive lists of a family of inputs: every list of at most two
\* archives of the family, followed by archives of its tail, MaxPacks
\* archives at most.
ArchiveLists(family, tail) ==
  {Archives(m \o t) :
     m \in SeqUpTo(family, IF MaxPacks < 2 THEN MaxPacks ELSE 2),
     t \in SeqUpTo(tail, IF MaxPacks < 2 THEN 0 ELSE MaxPacks - 2)}

IdFiles(idList) ==
  [i \in 1..Len(idList) |-> File(FileNames[i], FALSE, idList[i], <<>>)]

Scenario(in, plugs, cfg, which) ==
  [input |-> in, plugins |-> plugs, config |-> cfg, impl |-> which]

\* The caller's config.duplicateIdentifierWarnings: absent, true or false.
FlagValues == {"undefined", "true", "false"}

\* Archives of one behavior module with one identifier-keyed subdirectory.
IdModules ==
  {<<PackModule("BP", PlainManifest, <<SubDir(c, IdFiles(l))>>)>> :
     c \in {"blocks", "items"}, l \in SeqUpTo(Identifiers, MaxFiles)}

IdScenarios ==
  {Scenario(a, <<>>, f, "core") :
     a \in ArchiveLists(IdModules,
                        {<<PackModule("BP", PlainManifest,
                                      <<SubDir("blocks", IdFiles(<<"my:stone">>))>>)>>}),
     f \in FlagValues}

\* Archives whose modules differ in the min_engine_version they declare.
MinEngineVersions == {<<1, 20, 80>>, <<1, 21, 60>>, <<1, 22, 10>>, <<2, 0, 0>>}

Declaring(name, version, deps) ==
  PackModule(name,
             [ok |-> TRUE, min_engine_version |-> version, entry |-> <<>>,
              dependencies |-> deps],
             <<>>)

MinEngineModules ==
  {<<Declaring("BP", v, <<>>)>> : v \in MinEngineVersions}
    \cup {<<Declaring("BP", v, <<>>), Declaring("RP", w, <<>>)>> :
            v \in MinEngineVersions, w \in MinEngineVersions}

MinEngineScenarios ==
  {Scenario(a, <<>>, "undefined", "core") :
     a \in ArchiveLists(MinEngineModules, {<<Declaring("BP", <<1, 21, 60>>, <<>>)>>})}

\* Archives whose behavior modules declare dependencies.
Dependencies01 ==
  {[module_name |-> "@minecraft/server", version |-> v] :
     v \in {<<0, 1, 0>>, <<0, 2, 0>>, <<1, 2, 0>>, <<1, 3, 0>>, <<2, 0, 0>>}}
    \cup {[module_name |-> "@minecraft/server-ui", version |-> <<1, 2, 0>>],
          [module_name |-> "", version |-> <<1, 0, 0>>]}

DependencyLists ==
  SeqUpTo(Dependencies01, 1)
    \cup {<<[module_name |-> "@minecraft/server", version |-> v],
            [module_name |-> "@minecraft/server", version |-> w]>> :
            v \in {<<1, 2, 0>>, <<1, 3, 0>>}, w \in {<<1, 2, 0>>, <<1, 3, 0>>}}

DependencyModules == {<<Declaring("BP", Baseline, d)>> : d \in DependencyLists}

DependencyScenarios ==
  {Scenario(a, <<>>, "undefined", "core") :
     a \in ArchiveLists(DependencyModules,
                        {<<Declaring("BP", Baseline,
                                     <<[module_name |-> "@minecraft/server",
                                        version |-> <<1, 3, 0>>]>>)>>})}

\* Archives whose modules differ in both.
VersionModules ==
  {<<Declaring("BP", v, <<[module_name |-> "@minecraft/server", version |-> w]>>)>> :
     v \in {<<1, 20, 80>>, <<1, 22, 10>>}, w \in {<<1, 2, 0>>, <<1, 3, 0>>}}

VersionScenarios ==
  {Scenario(a, <<>>, "undefined", "core") :
     a \in ArchiveLists(VersionModules, {<<Declaring("BP", <<1, 21, 60>>, <<>>)>>})}

\* Archives of one resource module with a texts subdirectory. A line is the
\* sequence of its tokens.
Lines ==
  {<<"k", "=", "v">>, <<"k", "=", "w">>, <<"j", "=", "v">>,
   <<"k", "=", "v", "=", "w">>, <<" ", "k", "=", "v", " ", "\r">>,
   <<"#", "#", "k", "=", "v">>, <<>>, <<" ">>, <<"pack.name", "=", "v">>,
   <<"pack.description", "=", "v">>, <<"k">>, <<"k", "=", "v", "\r", "w">>}

LineLists ==
  SeqUpTo(Lines, 1)
    \cup {<<<<"k", "=", "v">>, <<"k", "=", "w">>>>,
          <<<<"k", "=", "w">>, <<"j", "=", "v">>>>,
          <<<<"#", "#", "k", "=", "v">>, <<"k", "=", "w">>>>,
          <<<<"k">>, <<"k", "=", "v", "=", "w">>>>}

Unsupported ==
  {File("sub", TRUE, "", <<>>), File("notes.txt", FALSE, "", <<<<"k", "=", "v">>>>),
   File("languages.json", FALSE, "", <<<<"k", "=", "v">>>>)}

TextListings ==
  {<<File("en_US.lang", FALSE, "", l)>> : l \in LineLists}
    \cup {<<u>> : u \in Unsupported}
    \cup {<<u, File("en_US.lang", FALSE, "", <<<<"k", "=", "v">>>>)>> : u \in Unsupported}
    \cup {<<File("en_US.lang", FALSE, "", <<<<"k", "=", "v">>>>),
            File("fr_FR.lang", FALSE, "", <<<<"k", "=", "w">>>>)>>}

TextModules ==
  {<<PackModule("RP", PlainManifest, <<SubDir("texts", l)>>)>> : l \in TextListings}

TextScenarios ==
  {Scenario(a, <<>>, f, "core") :
     a \in ArchiveLists(TextModules,
                        {<<PackModule("RP", PlainManifest,
                                      <<SubDir("texts",
                                               <<File("en_US.lang", FALSE, "",
                                                      <<<<"k", "=", "w">>>>)>>)>>)>>}),
     f \in {"undefined", "false"}}

\* The same with mergePacks of index.ts.
IndexModules ==
  {<<PackModule("RP", PlainManifest, <<SubDir(c, l)>>)>> :
     c \in {"texts", "models"},
     l \in {<<u>> : u \in Unsupported}
             \cup {<<File("en_US.lang", FALSE, "", <<<<"k", "=", "v">>>>)>>}}

IndexScenarios ==
  {Scenario(a, <<>>, "undefined", "index") :
     a \in ArchiveLists(IndexModules,
                        {<<PackModule("RP", PlainManifest,
                                      <<SubDir("texts",
                                               <<File("en_US.lang", FALSE, "",
                                                      <<<<"k", "=", "w">>>>)>>)>>)>>})}

\* Archives of one resource module with a models subdirectory.
ModelListings ==
  SeqUpTo({ModelFile("m.json", fmt, "geometry.a") : fmt \in {"1.12.0", "1.8.0"}}, 1)
    \cup {<<ModelFile("m.json", fmt, "geometry.a"), ModelFile("n.json", "1.12.0", g)>> :
            fmt \in {"1.12.0", "1.8.0"}, g \in {"geometry.a", "geometry.b"}}
    \cup {<<File("sub", TRUE, "", <<>>), ModelFile("m.json", "1.8.0", "geometry.a")>>}

ModelModules ==
  {<<PackModule("RP", PlainManifest, <<SubDir("models", l)>>)>> : l \in ModelListings}

ModelScenarios ==
  {Scenario(a, <<>>, f, "core") :
     a \in ArchiveLists(ModelModules,
                        {<<PackModule("RP", PlainManifest,
                                      <<SubDir("models",
                                               <<ModelFile("m.json", "1.12.0",
                                                           "geometry.a")>>)>>)>>}),
     f \in {"undefined", "false"}}

\* Plugins of the caller: whether the plugin has a mergeSubDir hook, and the
\* subdirectories its hook returns true for.
Plugin(name, hook, claims) == [name |-> name, hook |-> hook, claims |-> claims]

PluginLists ==
  {<<>>}
    \cup {<<Plugin("first", TRUE, c)>> : c \in {{}, {"custom"}, {"blocks"}}}
    \cup {<<Plugin("first", h, c), Plugin("second", TRUE, d)>> :
            h \in BOOLEAN, c \in {{}, {"custom"}}, d \in {{}, {"custom"}}}

\* Archives of one behavior module whose subdirectories are of a known and
\* of an unknown category.
DispatchModules ==
  {<<PackModule("BP", PlainManifest, d)>> :
     d \in {<<SubDir("custom", <<>>)>>,
            <<SubDir("scripts", <<File("main.js", FALSE, "", <<>>)>>)>>,
            <<SubDir("blocks", IdFiles(<<"my:stone">>)), SubDir("custom", <<>>)>>,
            <<SubDir("custom", <<>>), SubDir("other", <<>>)>>,
            <<SubDir("texts", <<File("en_US.lang", FALSE, "", <<<<"k", "=", "v">>>>)>>)>>}}

DispatchScenarios ==
  {Scenario(a, p, "undefined", "core") :
     a \in ArchiveLists(DispatchModules,
                        {<<PackModule("BP", PlainManifest, <<SubDir("custom", <<>>)>>)>>})
            \ {<<>>},
     p \in PluginLists}

\* Archives with a content file without a "minecraft:" key, or with a
\* manifest that cannot be read.
ParseErrorModules ==
  {<<PackModule("BP", PlainManifest, d)>> :
     d \in {<<SubDir("blocks", IdFiles(<<NoRootKey>>))>>,
            <<SubDir("blocks", IdFiles(<<"my:stone", NoRootKey>>))>>,
            <<SubDir("blocks", IdFiles(<<NoRootKey>>)),
              SubDir("items", IdFiles(<<"my:stone">>))>>,
            <<SubDir("items", IdFiles(<<"my:dirt">>))>>}}
    \cup {<<PackModule("BP", [PlainManifest EXCEPT !.ok = FALSE], <<>>)>>,
          <<PackModule("BP", PlainManifest, <<SubDir("items", IdFiles(<<"my:stone">>))>>),
            PackModule("RP", [PlainManifest EXCEPT !.ok = FALSE], <<>>)>>}

ParseErrorScenarios ==
  {Scenario(a, <<>>, "undefined", w) :
     a \in ArchiveLists(ParseErrorModules,
                        {<<PackModule("BP", PlainManifest,
                                      <<SubDir("blocks", IdFiles(<<"my:stone">>))>>)>>}),
     w \in {"core", "index"}}

\* Archives of one resource module with a textures subdirectory.
Texture(key, value) == [key |-> key, value |-> value]

TextureListings ==
  {<<TextureFile("terrain_texture.json", e)>> :
     e \in {<<>>, <<Texture("stone", "a")>>, <<Texture("stone", "b")>>,
            <<Texture("dirt", "b")>>, <<Texture("dirt", "a"), Texture("stone", "b")>>}}
    \cup {<<TextureFile("flipbook_textures.json", e), TextureFile("stone.png", <<>>)>> :
            e \in {<<Texture("stone", "a")>>, <<Texture("dirt", "b")>>,
                   <<Texture("stone", "a"), Texture("stone", "b")>>}}
    \cup {<<TextureFile("item_texture.json", <<Texture("stone", v)>>),
            TextureFile("terrain_texture.json", <<Texture("stone", v)>>)>> :
            v \in {"a", "b"}}
    \cup {<<TextureFile("stone.png", <<>>)>>}

TextureModules ==
  {<<PackModule("RP", PlainManifest, <<SubDir("textures", l)>>)>> : l \in TextureListings}

TextureScenarios ==
  {Scenario(a, <<>>, f, "core") :
     a \in ArchiveLists(TextureModules,
                        {<<PackModule("RP", PlainManifest,
                                      <<SubDir("textures",
                                               <<TextureFile("terrain_texture.json",
                                                             <<Texture("dirt", "c")>>)>>)>>)>>}),
     f \in {"undefined", "false"}}

\* Archives of one behavior module that may declare a script module with an
\* entry and may have a scripts subdirectory.
ScriptEntries == {<<>>, <<"scripts", "main.js">>, <<"scripts", "start.js">>}

ScriptModules ==
  {<<PackModule("BP", [PlainManifest EXCEPT !.entry = e], d)>> :
     e \in ScriptEntries,
     d \in {<<>>, <<SubDir("scripts", <<File("main.js", FALSE, "", <<>>)>>)>>,
            <<SubDir("scripts", <<File("main.js", FALSE, "", <<>>),
                                  File("start.js", FALSE, "", <<>>)>>)>>}}

ScriptScenarios ==
  {Scenario(a, <<>>, "undefined", w) :
     a \in ArchiveLists(ScriptModules,
                        {<<PackModule("BP", [PlainManifest EXCEPT
                                               !.entry = <<"scripts", "main.js">>],
                                      <<SubDir("scripts",
                                               <<File("main.js", FALSE, "", <<>>)>>)>>)>>}),
     w \in {"core", "index"}}

\* Archives of one behavior module with two identifier-keyed subdirectories,
\* which mergePack merges concurrently: the same identifiers in both.
ConcurrentModules ==
  {<<PackModule("BP", PlainManifest,
                <<SubDir("blocks", IdFiles(<<"my:stone", "my:stone">>)),
                  SubDir("items", IdFiles(l))>>)>> :
     l \in {<<"my:stone", "my:ore">>, <<"my:ore", "my:ore">>}}

ConcurrentScenarios ==
  {Scenario(a, <<>>, "true", "core") :
     a \in ArchiveLists(ConcurrentModules,
                        {<<PackModule("BP", PlainManifest,
                                      <<SubDir("blocks", IdFiles(<<"my:stone">>))>>)>>})}

Scenarios ==
  VersionScenarios \cup ConcurrentScenarios \cup ScriptScenarios \cup TextureScenarios \cup ParseErrorScenarios \cup IdScenarios \cup MinEngineScenarios \cup DependencyScenarios
    \cup TextScenarios \cup IndexScenarios \cup ModelScenarios
    \cup DispatchScenarios

\* ----------------------------------------------------------- state
VARIABLES
  impl,                  \* which mergePacks runs: "core" (core.ts) or "index" (index.ts)
  input,                 \* the archives at config.input, in discovery order
  config,                \* the caller's config object: its duplicateIdentifierWarnings
  plugins,               \* the caller's plugin list
  runs,                  \* calls of mergePacks made by this process
  dirs,                  \* directories that exist under config.outDir (<<>> is outDir)
  tmp,                   \* whether the temporary directory exists
  out,                   \* files under config.outDir: path -> content
  pc,                    \* where mergePacks is
  decompressed,          \* archives whose decompress promise has resolved
  addon,                 \* index of the archive being merged
  pack,                  \* index of its module being merged
  tasks,                 \* the mergePackSubDir promises of that module
  fin,                   \* index of the next plugin whose finishUp is called
  ids,                   \* blockIds, entityIds, itemIds, recipeIds
  texts,                 \* language -> (key -> value)
  geometries,            \* identifier -> geometry
  textureData,           \* flipbookTextureData, itemTextureData, terrainTextureData
  warningsCount,
  warnings,              \* what pino.warn wrote
  minEngineVersionStr,
  scriptModuleVersions,
  manualMergesRequired,
  scriptEntryPoints,
  report                 \* the lines logged after the manifests are written

vars ==
  <<impl, input, config, plugins, runs, dirs, tmp, out, pc, decompressed,
    addon, pack, tasks, fin, ids, texts, geometries, textureData, warningsCount,
    warnings,
    minEngineVersionStr, scriptModuleVersions, manualMergesRequired,
    scriptEntryPoints, report>>

\* Everything a step of mergePacks or of a strategy may change.
Now ==
  [config |-> config, plugins |-> plugins, runs |-> runs, dirs |-> dirs,
   tmp |-> tmp, out |-> out, pc |-> pc, decompressed |-> decompressed,
   addon |-> addon, pack |-> pack, tasks |-> tasks, fin |-> fin, ids |-> ids,
   texts |-> texts, geometries |-> geometries, textureData |-> textureData,
   warningsCount |-> warningsCount, warnings |-> warnings,
   minEngineVersionStr |-> minEngineVersionStr,
   scriptModuleVersions |-> scriptModuleVersions,
   manualMergesRequired |-> manualMergesRequired,
   scriptEntryPoints |-> scriptEntryPoints, report |-> report]

Becomes(S) ==
  /\ config' = S.config
  /\ plugins' = S.plugins
  /\ runs' = S.runs
  /\ dirs' = S.dirs
  /\ tmp' = S.tmp
  /\ out' = S.out
  /\ pc' = S.pc
  /\ decompressed' = S.decompressed
  /\ addon' = S.addon
  /\ pack' = S.pack
  /\ tasks' = S.tasks
  /\ fin' = S.fin
  /\ ids' = S.ids
  /\ texts' = S.texts
  /\ geometries' = S.geometries
  /\ textureData' = S.textureData
  /\ warningsCount' = S.warningsCount
  /\ warnings' = S.warnings
  /\ minEngineVersionStr' = S.minEngineVersionStr
  /\ scriptModuleVersions' = S.scriptModuleVersions
  /\ manualMergesRequired' = S.manualMergesRequired
  /\ scriptEntryPoints' = S.scriptEntryPoints
  /\ report' = S.report
  /\ UNCHANGED <<impl, input>>

\* const blockIds = new Map() ... : the registries as constructed.
EmptyIds == [blocks |-> <<>>, entities |-> <<>>, items |-> <<>>, recipes |-> <<>>]

IdCategories == {"blocks", "entities", "items", "recipes"}

\* const flipbookTextureData = new Map() ... : the texture tables as
\* constructed, by the file each is read from and flushed to.
TextureFiles == <<"flipbook_textures.json", "item_texture.json", "terrain_texture.json">>

EmptyTextureData ==
  [n \in {TextureFiles[k] : k \in 1..3} |-> <<>>]

corePlugin == [name |-> "core", hook |-> TRUE, claims |-> {}]

\* The strategies mergePackSubDir tries, in order. index.ts has none: its
\* switch is the only one.
Strategies(S) ==
  IF impl = "index"
  THEN <<[name |-> "index", hook |-> TRUE, claims |-> {}]>>
  ELSE S.plugins

\* ------------------------------------------------------- plugin API
\* warn(message): pino.warn(message); warningsCount++
warn(S, message) ==
  [S EXCEPT !.warnings = Append(@, message), !.warningsCount = @ + 1]

\* requireManualMerge that logs the record without counting it.
C11_ManualMergeUncounted(S, fileName, reason) ==
  [S EXCEPT !.manualMergesRequired =
              Append(@, [subject |-> fileName, reason |-> reason]),
            !.warnings = Append(@, ManualMsg(fileName, reason))]

\* requireManualMerge(fileName, reason)
requireManualMerge(S, fileName, reason) ==
  warn([S EXCEPT !.manualMergesRequired =
                   Append(@, [subject |-> fileName, reason |-> reason])],
       ManualMsg(fileName, reason))

\* setOrDuplicateIdWarning with the check of map.has(key) lost: the last
\* definition wins.
C1_LastWriteWins(S, fullFileName, map, key, value, originalFileName) ==
  [S |-> S, map |-> Set(map, key, value), set |-> TRUE]

\* setOrDuplicateIdWarning that overwrites the entry when it is not to warn.
C2_OverwritesWhenSilent(S, fullFileName, map, key, value, originalFileName) ==
  IF Has(map, key) /\ S.config = "true"
  THEN [S |-> warn(S, DuplicateMsg(key, fullFileName, originalFileName)),
        map |-> map, set |-> FALSE]
  ELSE [S |-> S, map |-> Set(map, key, value), set |-> TRUE]

\* setOrDuplicateIdWarning that sets the entry after the warning.
C20_InsertsAgain(S, fullFileName, map, key, value, originalFileName) ==
  IF Has(map, key)
  THEN [S |-> IF S.config = "true"
              THEN warn(S, DuplicateMsg(key, fullFileName, originalFileName))
              ELSE S,
        map |-> Append(map, [key |-> key, value |-> value]), set |-> FALSE]
  ELSE [S |-> S, map |-> Set(map, key, value), set |-> TRUE]

\* setOrDuplicateIdWarning(fullFileName, map, key, value, originalFileName):
\* the run after the call, the map after it, and what it returned.
setOrDuplicateIdWarning(S, fullFileName, map, key, value, originalFileName) ==
  IF Has(map, key)
  THEN [S |-> IF S.config = "true"
              THEN warn(S, DuplicateMsg(key, fullFileName, originalFileName))
              ELSE S,
        map |-> map, set |-> FALSE]
  ELSE [S |-> S, map |-> Set(map, key, value), set |-> TRUE]

\* ------------------------------------------------- one subdirectory
\* The MergeSubDirPayload of task i of the module being merged.
AddonName(S) == input[S.addon].name

PackName(S) == input[S.addon].modules[S.pack].name

SubDirOf(S, i) == input[S.addon].modules[S.pack].subdirs[S.tasks[i].sub]

FullSubDirName(S, i) == <<AddonName(S), PackName(S), SubDirOf(S, i).name>>

FullFileName(S, i, f) == Append(FullSubDirName(S, i), SubDirOf(S, i).files[f].name)

SetTask(S, i, pos, file) ==
  [S EXCEPT !.tasks[i].pos = pos, !.tasks[i].file = file]

\* The hook returned (or its promise resolved) with r.
Returns(S, i, r) ==
  [S EXCEPT !.tasks[i].pos = "ret", !.tasks[i].result = r, !.tasks[i].file = 0]

\* The error lost: the hook returns as if it had merged the subdirectory.
C13_ErrorSwallowed(S, i) ==
  [S EXCEPT !.tasks[i].pos = "ret", !.tasks[i].result = TRUE, !.tasks[i].file = 0]

\* The hook threw: the task's promise rejects, and with it Promise.all of
\* mergePack, mergePack and mergePacks. The sibling tasks go on.
Throws(S, i) ==
  [S EXCEPT !.tasks[i].pos = "failed",
            !.pc = IF @ = "subdirs" THEN "failed" ELSE @]

\* The entries a listing yields after its f-th.
LaterFiles(S, i, f) == (f + 1)..Len(SubDirOf(S, i).files)

\* mergeWithDuplicateIdCheck(ids): the loop reaches the next entry that is
\* not a directory and awaits jsonc.read of it, or ends.
IdLoop(S, i, f) ==
  LET rest == {g \in LaterFiles(S, i, f) : ~SubDirOf(S, i).files[g].isDir}
  IN IF rest = {}
     THEN Returns(S, i, TRUE)
     ELSE SetTask(S, i, "read", CHOOSE g \in rest : \A h \in rest : g <= h)

\* mergeWithDuplicateIdCheck(ids), from the file read to the cp it awaits.
mergeWithDuplicateIdCheck(S, i) ==
  LET f == S.tasks[i].file
      file == SubDirOf(S, i).files[f]
      cat == SubDirOf(S, i).name
      fullFileName == FullFileName(S, i, f)
      original == IF Has(S.ids[cat], file.id) THEN Get(S.ids[cat], file.id) ELSE NoPath
      r == setOrDuplicateIdWarning(S, fullFileName, S.ids[cat], file.id,
                                   fullFileName, original)
      T == [r.S EXCEPT !.ids[cat] = r.map]
  IN IF file.id = NoRootKey
     THEN Throws(S, i)
     ELSE IF r.set THEN SetTask(T, i, "copy", f) ELSE IdLoop(T, i, f)

Put(files, path, content) ==
  [x \in DOMAIN files \cup {path} |-> IF x = path THEN content ELSE files[x]]

\* The directories above a path, which cp creates with the file.
Ancestors(path) == {SubSeq(path, 1, n) : n \in 0..(Len(path) - 1)}

WriteFile(S, path, content) ==
  [S EXCEPT !.out = Put(@, path, content), !.dirs = @ \cup Ancestors(path)]

\* fs.promises.cp(<file>, path.join(destDir, file.name)) has copied the file.
CopyIdFile(S, i) ==
  LET f == S.tasks[i].file
      dest == <<"BP", SubDirOf(S, i).name, AddonName(S), SubDirOf(S, i).files[f].name>>
  IN IdLoop(WriteFile(S, dest, [from |-> FullFileName(S, i, f)]), i, f)

\* fs.promises.cp(subDirPath, <outBpPath>/scripts/<addonName>, recursive).
RECURSIVE CopyTree(_, _, _, _)
CopyTree(S, i, to, n) ==
  IF n = 0 THEN [S EXCEPT !.dirs = @ \cup Ancestors(to) \cup {to}]
  ELSE WriteFile(CopyTree(S, i, to, n - 1),
                 Append(to, SubDirOf(S, i).files[n].name),
                 [from |-> FullFileName(S, i, n)])

CopyScripts(S, i) ==
  Returns(CopyTree(S, i, <<"BP", "scripts", AddonName(S)>>,
                   Len(SubDirOf(S, i).files)),
          i, TRUE)

\* ------------------------------------------------------------ texts
\* file.name.endsWith(".lang") and path.basename(file.name, ".lang"), on the
\* file names the inputs use; LangFile is `${lang}.lang`.
EndsWithLang(name) == name \in {"en_US.lang", "fr_FR.lang"}

Basename(name) ==
  CASE name = "en_US.lang" -> "en_US"
    [] name = "fr_FR.lang" -> "fr_FR"
    [] OTHER -> name

LangFile(lang) ==
  CASE lang = "en_US" -> "en_US.lang"
    [] lang = "fr_FR" -> "fr_FR.lang"
    [] lang = "notes.txt" -> "notes.txt.lang"
    [] OTHER -> "other.lang"

\* Tokens of white space.
Blank == {" ", "\r"}

\* lineRaw.trim()
RECURSIVE TrimStart(_)
TrimStart(line) ==
  IF line # <<>> /\ Head(line) \in Blank THEN TrimStart(Tail(line)) ELSE line

RECURSIVE TrimEnd(_)
TrimEnd(line) ==
  IF line # <<>> /\ line[Len(line)] \in Blank
  THEN TrimEnd(SubSeq(line, 1, Len(line) - 1))
  ELSE line

Trim(line) == TrimEnd(TrimStart(line))

\* line.startsWith("##")
IsComment(line) == Len(line) >= 2 /\ line[1] = "#" /\ line[2] = "#"

\* The value of a line without "=": undefined.
Undefined == <<"undefined">>

\* The line split at its last "=" instead of its first.
C7_SplitAtLast(line) ==
  LET at == {n \in 1..Len(line) : line[n] = "="}
      last == CHOOSE n \in at : \A k \in at : n >= k
  IN IF at = {}
     THEN [key |-> line, value |-> <<"undefined">>]
     ELSE [key |-> SubSeq(line, 1, last - 1),
           value |-> SubSeq(line, last + 1, Len(line))]

\* Tokens "." of a regular expression does not match: CR, U+2028, U+2029.
LineTerminators == {"\r"}

\* const [key, value] = line.split(/=(.*)/): the first match starts at the
\* first "=" and its group ends before the first line terminator after it.
SplitKeyValue(line) ==
  LET at == {n \in 1..Len(line) : line[n] = "="}
      first == CHOOSE n \in at : \A k \in at : n <= k
      ends == {n \in (first + 1)..Len(line) : line[n] \in LineTerminators}
              \cup {Len(line) + 1}
      end == CHOOSE n \in ends : \A k \in ends : n <= k
  IN IF at = {}
     THEN [key |-> line, value |-> Undefined]
     ELSE [key |-> SubSeq(line, 1, first - 1),
           value |-> SubSeq(line, first + 1, end - 1)]

\* The pass without the test for "pack.name" and "pack.description".
C22_KeepsPackName(acc, fullFileName, lineRaw) ==
  LET line == Trim(lineRaw)
      kv == SplitKeyValue(line)
      r == setOrDuplicateIdWarning(acc.S, fullFileName, acc.map, kv.key,
                                   kv.value, NoPath)
  IN IF line = <<>> \/ IsComment(line)
     THEN acc
     ELSE [S |-> r.S, map |-> r.map]

\* One pass of the loop over the lines of a .lang file: the run and the
\* translations of the language after it.
TextLine(acc, fullFileName, lineRaw) ==
  LET line == Trim(lineRaw)
      kv == SplitKeyValue(line)
      r == setOrDuplicateIdWarning(acc.S, fullFileName, acc.map, kv.key,
                                   kv.value, NoPath)
  IN IF line = <<>> \/ IsComment(line)
     THEN acc
     ELSE IF kv.key = <<"pack.name">> \/ kv.key = <<"pack.description">>
          THEN acc
          ELSE [S |-> r.S, map |-> r.map]

RECURSIVE TextLines(_, _, _, _)
TextLines(acc, fullFileName, lines, n) ==
  IF n = 0 THEN acc
  ELSE TextLine(TextLines(acc, fullFileName, lines, n - 1), fullFileName, lines[n])

\* mergeTexts(): the loop from the entry after the f-th to the next await
\* (fs.promises.readFile) or to its end. index.ts has no continue after
\* either manual merge, so it goes on to read the entry.
RECURSIVE TextLoop(_, _, _)
TextLoop(S, i, f) ==
  LET g == f + 1
      file == SubDirOf(S, i).files[g]
      fullFileName == FullFileName(S, i, g)
      D == IF file.isDir
           THEN requireManualMerge(S, fullFileName,
                                   "Directories inside 'texts' are unsupported.")
           ELSE S
      U == IF ~EndsWithLang(file.name)
           THEN requireManualMerge(D, fullFileName, "Unsupported file.")
           ELSE D
  IN IF g > Len(SubDirOf(S, i).files)
     THEN Returns(S, i, TRUE)
     ELSE IF impl = "core"
          THEN CASE file.isDir -> TextLoop(D, i, g)
                 [] file.name = "languages.json" -> TextLoop(S, i, g)
                 [] ~EndsWithLang(file.name) ->
                      TextLoop(requireManualMerge(S, fullFileName, "Unsupported file."),
                               i, g)
                 [] OTHER -> SetTask(S, i, "read", g)
          ELSE IF file.name = "languages.json"
               THEN TextLoop(D, i, g)
               ELSE SetTask(U, i, "read", g)

\* mergeTexts(), from the file read to the next await. Reading a directory
\* fails (EISDIR).
mergeTexts(S, i) ==
  LET f == S.tasks[i].file
      file == SubDirOf(S, i).files[f]
      language == Basename(file.name)
      translations == IF Has(S.texts, language) THEN Get(S.texts, language) ELSE <<>>
      T == [S EXCEPT !.texts = Set(@, language, translations)]
      r == TextLines([S |-> T, map |-> translations], FullFileName(S, i, f),
                     file.lines, Len(file.lines))
  IN IF file.isDir
     THEN Throws(S, i)
     ELSE TextLoop([r.S EXCEPT !.texts = Set(@, language, r.map)], i, f)

\* `Format version '${content.format_version}' is unsupported, expected
\* '1.12.0'.`
UnsupportedFormat(format) == <<"Format version is unsupported", format>>

\* mergeModels(): the loop reaches the next entry that is not a directory
\* and awaits jsonc.read of it, or ends.
ModelLoop(S, i, f) == IdLoop(S, i, f)

\* mergeModels() without the continue after requireManualMerge: the geometry
\* of a file of another format version is set as well.
C21_UnsupportedMerged(S, i) ==
  LET f == S.tasks[i].file
      file == SubDirOf(S, i).files[f]
      fullFileName == FullFileName(S, i, f)
      T == IF file.format # "1.12.0"
           THEN requireManualMerge(S, fullFileName, UnsupportedFormat(file.format))
           ELSE S
      r == setOrDuplicateIdWarning(T, fullFileName, T.geometries, file.id,
                                   [identifier |-> file.id, of |-> fullFileName],
                                   NoPath)
  IN ModelLoop([r.S EXCEPT !.geometries = r.map], i, f)

\* mergeModels(), from the file read to the next await.
mergeModels(S, i) ==
  LET f == S.tasks[i].file
      file == SubDirOf(S, i).files[f]
      fullFileName == FullFileName(S, i, f)
      r == setOrDuplicateIdWarning(S, fullFileName, S.geometries, file.id,
                                   [identifier |-> file.id, of |-> fullFileName],
                                   NoPath)
  IN IF file.format # "1.12.0"
     THEN ModelLoop(requireManualMerge(S, fullFileName, UnsupportedFormat(file.format)),
                    i, f)
     ELSE ModelLoop([r.S EXCEPT !.geometries = r.map], i, f)

\* ---------------------------------------------------------- textures
\* The entries of the subdirectory's listing named like the k-th texture
\* table's file: fs.existsSync(flipbookTexturesPath) and so on.
TextureFileAt(S, i, k) ==
  {n \in 1..Len(SubDirOf(S, i).files) : SubDirOf(S, i).files[n].name = TextureFiles[k]}

\* mergeTextures(): from the k-th table to the next await, jsonc.read of the
\* next file that exists or the cp of the subdirectory.
TextureLoop(S, i, k) ==
  LET rest == {j \in (k + 1)..3 : TextureFileAt(S, i, j) # {}}
  IN IF rest = {}
     THEN SetTask(S, i, "cpdir", 0)
     ELSE SetTask(S, i, "read", CHOOSE j \in rest : \A h \in rest : j <= h)

\* The loop over the entries of one texture file.
RECURSIVE TextureEntries(_, _, _, _)
TextureEntries(acc, fullFileName, entries, n) ==
  IF n = 0 THEN acc
  ELSE LET before == TextureEntries(acc, fullFileName, entries, n - 1)
           r == setOrDuplicateIdWarning(before.S, fullFileName, before.map,
                                        entries[n].key, entries[n].value, NoPath)
       IN [S |-> r.S, map |-> r.map]

\* mergeTextures(), from the read of the k-th table's file to the next await.
mergeTextures(S, i) ==
  LET k == S.tasks[i].file
      table == TextureFiles[k]
      file == SubDirOf(S, i).files[CHOOSE n \in TextureFileAt(S, i, k) : TRUE]
      r == TextureEntries([S |-> S, map |-> S.textureData[table]],
                          Append(FullSubDirName(S, i), table),
                          file.entries, Len(file.entries))
  IN TextureLoop([r.S EXCEPT !.textureData[table] = r.map], i, k)

\* fs.promises.cp(subDirPath, path.join(outRpPath, "textures"), recursive):
\* a file that is there already is overwritten.
RECURSIVE CopyTextureTree(_, _, _)
CopyTextureTree(S, i, n) ==
  IF n = 0 THEN [S EXCEPT !.dirs = @ \cup {<<"RP">>, <<"RP", "textures">>}]
  ELSE WriteFile(CopyTextureTree(S, i, n - 1),
                 <<"RP", "textures", SubDirOf(S, i).files[n].name>>,
                 [from |-> FullFileName(S, i, n),
                  entries |-> SubDirOf(S, i).files[n].entries])

CopyTextures(S, i) ==
  Returns(CopyTextureTree(S, i, Len(SubDirOf(S, i).files)), i, TRUE)

\* mergeSubDir of core_plugin.ts, up to its first await.
CoreMergeSubDir(S, i) ==
  LET name == SubDirOf(S, i).name
  IN CASE name \in IdCategories -> SetTask(S, i, "list", 0)
       [] name = "models" -> SetTask(S, i, "list", 0)
       [] name = "scripts" -> SetTask(S, i, "cpdir", 0)
       [] name = "texts" -> SetTask(S, i, "list", 0)
       [] name = "textures" -> TextureLoop(S, i, 0)
       [] OTHER -> Returns(S, i, FALSE)

\* The switch of mergePackSubDir of index.ts, up to its first await.
IndexMergeSubDir(S, i) ==
  LET name == SubDirOf(S, i).name
  IN CASE name \in IdCategories -> SetTask(S, i, "list", 0)
       [] name = "scripts" -> SetTask(S, i, "cpdir", 0)
       [] name = "texts" -> SetTask(S, i, "list", 0)
       [] OTHER -> Returns(requireManualMerge(S, FullSubDirName(S, i),
                                              "Unsupported subdirectory."),
                           i, FALSE)

\* mergeSubDir of a plugin the caller supplied: it claims the
\* subdirectories it was written for.
ExternalMergeSubDir(S, i, plugin) ==
  Returns(S, i, SubDirOf(S, i).name \in plugin.claims)

\* mergePackSubDir calls the hook of strategy k, or has tried them all.
TryStrategy(S, i, k) ==
  LET strategies == Strategies(S)
      P == [S EXCEPT !.tasks[i].plug = k]
      T == [P EXCEPT !.tasks[i].invoked = Append(@, k)]
  IN IF k > Len(strategies)
     THEN SetTask(IF S.tasks[i].merged
                  THEN S
                  ELSE requireManualMerge(S, FullSubDirName(S, i),
                                          "Subdirectory could not be merged."),
                  i, "done", 0)
     ELSE CASE ~strategies[k].hook -> Returns(P, i, FALSE)
            [] strategies[k].name = "core" -> CoreMergeSubDir(T, i)
            [] strategies[k].name = "index" -> IndexMergeSubDir(T, i)
            [] OTHER -> ExternalMergeSubDir(T, i, strategies[k])

\* The loop left at the first hook that returns true.
C8_StopsAtFirstClaim(S, i) ==
  IF impl = "index" \/ S.tasks[i].result
  THEN SetTask([S EXCEPT !.tasks[i].merged = TRUE], i, "done", 0)
  ELSE TryStrategy(S, i, S.tasks[i].plug + 1)

\* mergePackSubDir(options): the loop over the plugins after the await of
\* one hook's result. In index.ts the promise of the switch is the task's.
mergePackSubDir(S, i) ==
  LET t == S.tasks[i]
  IN IF impl = "index"
     THEN SetTask(S, i, "done", 0)
     ELSE TryStrategy([S EXCEPT !.tasks[i].merged = @ \/ t.result], i, t.plug + 1)

\* One resumption of task i: from the await it was suspended at to the next.
Resume(S, i) ==
  LET t == S.tasks[i]
      name == SubDirOf(S, i).name
  IN CASE t.pos = "ret" -> mergePackSubDir(S, i)
       [] t.pos = "cpdir" /\ name = "scripts" -> CopyScripts(S, i)
       [] t.pos = "cpdir" /\ name = "textures" -> CopyTextures(S, i)
       [] t.pos = "read" /\ name = "textures" -> mergeTextures(S, i)
       [] t.pos = "list" /\ name \in IdCategories -> IdLoop(S, i, 0)
       [] t.pos = "read" /\ name \in IdCategories -> mergeWithDuplicateIdCheck(S, i)
       [] t.pos = "list" /\ name = "texts" -> TextLoop(S, i, 0)
       [] t.pos = "read" /\ name = "texts" -> mergeTexts(S, i)
       [] t.pos = "list" /\ name = "models" -> ModelLoop(S, i, 0)
       [] t.pos = "read" /\ name = "models" -> mergeModels(S, i)
       [] t.pos = "copy" -> CopyIdFile(S, i)

\* ------------------------------------------------------ mergePack
NewTask(n) ==
  [sub |-> n, plug |-> 0, pos |-> "new", file |-> 0, merged |-> FALSE,
   result |-> FALSE, invoked |-> <<>>]

\* The loop over the directory entries of packDir: mergePackSubDir is called
\* for each and runs to its first await.
RECURSIVE Dispatch(_, _)
Dispatch(S, n) ==
  IF n = 0 THEN [S EXCEPT !.tasks = <<>>]
  ELSE TryStrategy([Dispatch(S, n - 1) EXCEPT !.tasks = Append(@, NewTask(n))], n, 1)

\* The comparison lost: the version the last module declared is kept.
C4_LastDeclared(S, manifest) ==
  [S EXCEPT !.minEngineVersionStr = manifest.min_engine_version]

\* if (semver.gt(packMinEngineVerStr, minEngineVersionStr)) ...
MinEngineVersion(S, manifest) ==
  IF SemverGt(manifest.min_engine_version, S.minEngineVersionStr)
  THEN [S EXCEPT !.minEngineVersionStr = manifest.min_engine_version]
  ELSE S

\* The entry pushed with its "scripts" component left in.
C15_EntryNotRelocated(S, manifest) ==
  IF manifest.entry # <<>>
  THEN [S EXCEPT !.scriptEntryPoints = Append(@, <<AddonName(S)>> \o manifest.entry)]
  ELSE S

\* if (scriptEntry) scriptEntryPoints.push(addonName + scriptEntry.slice(7)):
\* the entry is the path "scripts/<rest>", and the slice drops "scripts".
ScriptEntry(S, manifest) ==
  IF manifest.entry # <<>>
  THEN [S EXCEPT !.scriptEntryPoints = Append(@, <<AddonName(S)>> \o Tail(manifest.entry))]
  ELSE S

\* The comparison turned around: the lower version is kept.
C5_KeepsLower(recorded, existingVer, version) ==
  ~recorded \/ SemverGt(existingVer, version)

\* The version of the dependency recorded whatever is recorded.
C23_ReplacesAlways(recorded, existingVer, version) == TRUE

\* if (!existingVer || semver.gt(dependency.version, existingVer))
KeepsVersion(recorded, existingVer, version) ==
  ~recorded \/ SemverGt(version, existingVer)

\* The range "^" + existingVer replaced by ">=" + existingVer.
C6_WarnsLower(recorded, existingVer, version) ==
  recorded /\ ~SemverGte(version, existingVer)

\* if (existingVer && !semver.satisfies(dependency.version, `^${existingVer}`))
WarnsIncompatible(recorded, existingVer, version) ==
  recorded /\ ~SatisfiesCaret(version, existingVer)

\* One pass of the loop over manifest.dependencies.
Dependency(S, dependency) ==
  LET recorded == Has(S.scriptModuleVersions, dependency.module_name)
      existingVer == IF recorded
                     THEN Get(S.scriptModuleVersions, dependency.module_name)
                     ELSE <<0, 0, 0>>
      T == IF KeepsVersion(recorded, existingVer, dependency.version)
           THEN [S EXCEPT !.scriptModuleVersions =
                            Set(@, dependency.module_name, dependency.version)]
           ELSE S
  IN IF dependency.module_name = ""
     THEN S
     ELSE IF WarnsIncompatible(recorded, existingVer, dependency.version)
          THEN warn(T, IncompatibleMsg(dependency.module_name,
                                       dependency.version, existingVer))
          ELSE T

RECURSIVE Dependencies(_, _, _)
Dependencies(S, deps, n) ==
  IF n = 0 THEN S ELSE Dependency(Dependencies(S, deps, n - 1), deps[n])

\* mergePack(addonName, packName, packDir) from the manifest read to
\* await Promise.all(promises).
mergePack(S) ==
  LET module == input[S.addon].modules[S.pack]
      manifest == module.manifest
      V == Dependencies(ScriptEntry(MinEngineVersion(S, manifest), manifest),
                        manifest.dependencies, Len(manifest.dependencies))
  IN IF ~manifest.ok
     THEN [S EXCEPT !.pc = "failed"]
     ELSE Dispatch([V EXCEPT !.pc = "subdirs"], Len(module.subdirs))

\* ------------------------------------------------------ mergePacks
\* The module after module m of archive a in the two loops of mergePacks,
\* <<0, 0>> when there is none.
ModuleAfter(a, m) ==
  LET later == {x \in (1..Len(input)) \X (1..2) :
                  /\ x[2] <= Len(input[x[1]].modules)
                  /\ x[1] > a \/ (x[1] = a /\ x[2] > m)}
  IN IF later = {} THEN <<0, 0>>
     ELSE CHOOSE x \in later :
            \A y \in later : x[1] < y[1] \/ (x[1] = y[1] /\ x[2] <= y[2])

\* The loops call mergePack for the next module, which awaits the read of
\* its manifest; after the last one: fs.rmSync(tmpDir) and the finishUp loop.
Proceed(S, a, m) ==
  LET next == ModuleAfter(a, m)
  IN IF next = <<0, 0>>
     THEN [S EXCEPT !.pc = "finishUp", !.tmp = FALSE, !.fin = 1, !.tasks = <<>>]
     ELSE [S EXCEPT !.pc = "manifest", !.addon = next[1], !.pack = next[2],
                    !.tasks = <<>>]

\* mergePacks without fs.existsSync(config.outDir): mkdirSync is not modelled
\* to throw, and the run goes on in the directory that exists.
C12_NoExistsCheck(S) ==
  [S EXCEPT !.plugins = IF impl = "core" THEN Append(@, corePlugin) ELSE @,
            !.config = IF @ = "undefined" THEN "true" ELSE @,
            !.runs = @ + 1,
            !.pc = "decompress", !.dirs = @ \cup {<<>>}, !.tmp = TRUE,
            !.decompressed = {}]

\* mergePacks with plugins.unshift(corePlugin) for plugins.push(corePlugin).
C24_CoreFirst(S) ==
  LET T == [S EXCEPT !.plugins = IF impl = "core" THEN <<corePlugin>> \o @ ELSE @,
                     !.config = IF @ = "undefined" THEN "true" ELSE @,
                     !.runs = @ + 1]
  IN IF <<>> \in S.dirs
     THEN [T EXCEPT !.pc = "failed"]
     ELSE [T EXCEPT !.pc = "decompress", !.dirs = @ \cup {<<>>}, !.tmp = TRUE,
                    !.decompressed = {}]

\* mergePacks(config, plugins) up to await Promise.all(decompressPromises).
mergePacks(S) ==
  LET T == [S EXCEPT !.plugins = IF impl = "core" THEN Append(@, corePlugin) ELSE @,
                     !.config = IF @ = "undefined" THEN "true" ELSE @,
                     !.runs = @ + 1]
  IN IF <<>> \in S.dirs
     THEN [T EXCEPT !.pc = "failed"]
     ELSE [T EXCEPT !.pc = "decompress", !.dirs = @ \cup {<<>>}, !.tmp = TRUE,
                    !.decompressed = {}]

\* mergePacks from "All packs decompressed." to the first mergePack.
AllPacksDecompressed(S) ==
  LET T == [S EXCEPT !.dirs = @ \cup {<<"BP">>, <<"RP">>},
                     !.warningsCount = 0,
                     !.minEngineVersionStr = Baseline,
                     !.scriptModuleVersions = <<>>,
                     !.manualMergesRequired = <<>>,
                     !.scriptEntryPoints = <<>>]
      U == IF impl = "index"
           THEN [T EXCEPT !.ids = EmptyIds, !.texts = <<>>]
           ELSE T
  IN Proceed(U, 1, 0)

\* `${key}=${val}\n` for every entry of a language's translations.
LangLines(translations) ==
  [n \in 1..Len(translations) |->
     translations[n].key \o <<"=">> \o translations[n].value]

\* The loop of finishUp over texts: a .lang file for each language.
RECURSIVE WriteLangFiles(_, _)
WriteLangFiles(S, n) ==
  IF n = 0 THEN S
  ELSE WriteFile(WriteLangFiles(S, n - 1),
                 <<"RP", "texts", LangFile(S.texts[n].key)>>,
                 [lines |-> LangLines(S.texts[n].value)])

\* if (texts.size) { fs.mkdirSync(textsDir); ... }: mkdirSync throws when
\* the directory exists.
FlushTexts(S) ==
  IF S.texts = <<>> THEN S
  ELSE IF <<"RP", "texts">> \in S.dirs THEN [S EXCEPT !.pc = "failed"]
  ELSE WriteFile(WriteLangFiles([S EXCEPT !.dirs = @ \cup {<<"RP", "texts">>}],
                                Len(S.texts)),
                 <<"RP", "texts", "languages.json">>,
                 [languages |-> [n \in 1..Len(S.texts) |-> S.texts[n].key]])

\* if (geometries.size) { fs.mkdirSync(modelsDir); ... }
FlushGeometries(S) ==
  IF S.geometries = <<>> \/ S.pc = "failed" THEN S
  ELSE IF <<"RP", "models">> \in S.dirs THEN [S EXCEPT !.pc = "failed"]
  ELSE WriteFile([S EXCEPT !.dirs = @ \cup {<<"RP", "models">>}],
                 <<"RP", "models", "geometries.json">>,
                 [format_version |-> "1.12.0",
                  geometry |-> [n \in 1..Len(S.geometries) |-> S.geometries[n].value]])

\* if (flipbookTextureData.size) fs.writeFileSync(...) and the same for the
\* item and the terrain table: the combined file of the first k tables.
\* writeFileSync throws when the textures directory does not exist.
RECURSIVE FlushTextures(_, _)
FlushTextures(S, k) ==
  IF k = 0 THEN S
  ELSE LET T == FlushTextures(S, k - 1)
           table == TextureFiles[k]
       IN IF T.pc = "failed" \/ T.textureData[table] = <<>> THEN T
          ELSE IF <<"RP", "textures">> \notin T.dirs THEN [T EXCEPT !.pc = "failed"]
          ELSE WriteFile(T, <<"RP", "textures", table>>,
                         [from |-> NoPath, entries |-> T.textureData[table]])

\* finishUp without the three combined texture files.
C14_TexturesNotFlushed(S) ==
  IF impl = "index" THEN FlushTexts(S) ELSE FlushGeometries(FlushTexts(S))

\* finishUp(api) of core_plugin.ts; in index.ts, the lines of mergePacks
\* that flush the texts.
finishUp(S) ==
  IF impl = "index" THEN FlushTexts(S)
  ELSE FlushTextures(FlushGeometries(FlushTexts(S)), 3)

\* The finishUp hook of strategy k.
FinishUpOf(S, k) ==
  LET T == IF Strategies(S)[k].name \in {"core", "index"} THEN finishUp(S) ELSE S
  IN IF T.pc = "failed" THEN T ELSE [T EXCEPT !.fin = k + 1]

\* The behavior manifest without the entries of scriptModuleVersions.
C16_ModuleVersionsLeftOut(S) ==
  [min_engine_version |-> S.minEngineVersionStr,
   uuid |-> "outBpManifestHeaderUuid",
   modules |-> <<[type |-> "data", entry |-> <<>>]>>
                 \o (IF S.scriptEntryPoints # <<>>
                     THEN <<[type |-> "script", entry |-> <<"scripts", "index.js">>]>>
                     ELSE <<>>),
   dependencies |-> <<[uuid |-> "outRpManifestHeaderUuid", module_name |-> "",
                       version |-> <<1, 0, 0>>]>>]

\* { uuid: <header uuid of the other manifest>, version: outPackVersion }
Link(uuid) == [uuid |-> uuid, module_name |-> "", version |-> <<1, 0, 0>>]

\* JSON of the behavior and of the resource manifest. The two header uuids
\* are two results of uuid.v4().
BpManifest(S) ==
  [min_engine_version |-> S.minEngineVersionStr,
   uuid |-> "outBpManifestHeaderUuid",
   modules |-> <<[type |-> "data", entry |-> <<>>]>>
                 \o (IF S.scriptEntryPoints # <<>>
                     THEN <<[type |-> "script", entry |-> <<"scripts", "index.js">>]>>
                     ELSE <<>>),
   dependencies |-> <<Link("outRpManifestHeaderUuid")>>
                      \o [n \in 1..Len(S.scriptModuleVersions) |->
                            [uuid |-> "", module_name |-> S.scriptModuleVersions[n].key,
                             version |-> S.scriptModuleVersions[n].value]]]

RpManifest(S) ==
  [min_engine_version |-> S.minEngineVersionStr,
   uuid |-> "outRpManifestHeaderUuid",
   modules |-> <<[type |-> "resources", entry |-> <<>>]>>,
   dependencies |-> <<Link("outBpManifestHeaderUuid")>>]

\* "Completed with 0 warnings." / `Completed with ${warningsCount} warnings.`
Completed(S) == <<[kind |-> "completed", warnings |-> S.warningsCount]>>

\* mergePacks after the finishUp loop: scripts/index.js, the two manifests
\* and the report. writeFileSync of scripts/index.js throws when no scripts
\* subdirectory was copied to the output.
Synthesize(S) ==
  LET T == IF S.scriptEntryPoints # <<>>
           THEN WriteFile(S, <<"BP", "scripts", "index.js">>,
                          [imports |-> S.scriptEntryPoints])
           ELSE S
      U == WriteFile(WriteFile(T, <<"BP", "manifest.json">>, BpManifest(S)),
                     <<"RP", "manifest.json">>, RpManifest(S))
  IN IF S.scriptEntryPoints # <<>> /\ <<"BP", "scripts">> \notin S.dirs
     THEN [S EXCEPT !.pc = "failed"]
     ELSE [U EXCEPT !.report = Completed(S), !.pc = "done"]

\* ---------------------------------------------------------- actions
\* The process calls mergePacks.
Call ==
  /\ pc = "idle"
  /\ Becomes(mergePacks(Now))

\* decompress(packPath, ...) of archive p resolves.
Decompress(p) ==
  /\ pc = "decompress"
  /\ p \notin decompressed
  /\ Becomes([Now EXCEPT !.decompressed = @ \cup {p}])

\* await Promise.all(decompressPromises) resolves.
Decompressed ==
  /\ pc = "decompress"
  /\ decompressed = 1..Len(input)
  /\ Becomes(AllPacksDecompressed(Now))

\* await jsonc.read(manifestPath) resolves.
MergePack ==
  /\ pc = "manifest"
  /\ Becomes(mergePack(Now))

\* A suspended mergePackSubDir promise is resumed.
MergeSubDir(i) ==
  /\ tasks[i].pos \notin {"done", "failed"}
  /\ Becomes(Resume(Now, i))

\* mergePack returns without awaiting the promises of its subdirectories.
C17_NotAwaited ==
  /\ pc = "subdirs"
  /\ Becomes(Proceed(Now, addon, pack))

\* await Promise.all(promises) of mergePack resolves.
PackMerged ==
  /\ pc = "subdirs"
  /\ \A i \in 1..Len(tasks) : tasks[i].pos = "done"
  /\ Becomes(Proceed(Now, addon, pack))

\* The finishUp hook of the next plugin runs.
FinishUp ==
  /\ pc = "finishUp"
  /\ fin <= Len(Strategies(Now))
  /\ Becomes(FinishUpOf(Now, fin))

\* The manifests are written without awaiting the finishUp hooks.
C18_ReportsEarly ==
  /\ pc = "finishUp"
  /\ Becomes(Synthesize(Now))

\* The manifests are written and the run reports.
Report ==
  /\ pc = "finishUp"
  /\ fin > Len(Strategies(Now))
  /\ Becomes(Synthesize(Now))

Start(sc) ==
  /\ impl = sc.impl
  /\ input = sc.input
  /\ config = sc.config
  /\ plugins = sc.plugins
  /\ runs = 0
  /\ dirs \in {{}, {<<>>}}
  /\ tmp = FALSE
  /\ out = <<>>
  /\ pc = "idle"
  /\ decompressed = {}
  /\ addon = 0
  /\ pack = 0
  /\ tasks = <<>>
  /\ fin = 0
  /\ ids = EmptyIds
  /\ texts = <<>>
  /\ geometries = <<>>
  /\ textureData = EmptyTextureData
  /\ warningsCount = 0
  /\ warnings = <<>>
  /\ minEngineVersionStr = Baseline
  /\ scriptModuleVersions = <<>>
  /\ manualMergesRequired = <<>>
  /\ scriptEntryPoints = <<>>
  /\ report = <<>>

Init == \E sc \in Scenarios : Start(sc)

Next ==
  \/ Call
  \/ \E p \in 1..Len(input) : Decompress(p)
  \/ Decompressed
  \/ MergePack
  \/ \E i \in 1..Len(tasks) : MergeSubDir(i)
  \/ PackMerged
  \/ FinishUp
  \/ Report

Spec == Init /\ [][Next]_vars

\* ------------------------------------------- two runs in one process
\* The process calls mergePacks of core.ts once more when the promise of the last call
\* has resolved: with the same input, no plugins argument (the default
\* parameter is a new array) and an outDir that does not exist yet.
Again(S) ==
  mergePacks([S EXCEPT !.plugins = <<>>, !.dirs = {}, !.out = <<>>, !.report = <<>>,
                       !.warnings = <<>>])

CallAgain ==
  /\ pc = "done"
  /\ runs < MaxRuns
  /\ Becomes(Again(Now))

RerunScenarios ==
  {sc \in IdScenarios \cup TextScenarios \cup ModelScenarios : Len(sc.input) <= 1}

InitRerun == \E sc \in RerunScenarios : Start(sc)

NextRerun == Next \/ CallAgain

SpecRerun == InitRerun /\ [][NextRerun]_vars

\* ------------------------------------------- a plugin list of the caller
\* The process calls mergePacks of core.ts once more with the array it has
\* passed before, which holds what plugins.push(corePlugin) has appended.
AgainWithList(S) ==
  mergePacks([S EXCEPT !.dirs = {}, !.out = <<>>, !.report = <<>>,
                       !.warnings = <<>>])

CallWithList ==
  /\ pc = "done"
  /\ runs < MaxRuns
  /\ Becomes(AgainWithList(Now))

\* The caller passes an empty array or one that holds the core plugin.
ListScenarios ==
  {[sc EXCEPT !.plugins = ps] :
     sc \in {x \in IdScenarios : x.impl = "core" /\ Len(x.input) <= 1},
     ps \in {<<>>, <<corePlugin>>}}

InitList == \E sc \in ListScenarios : Start(sc)

NextList == Next \/ CallWithList

SpecList == InitList /\ [][NextList]_vars

\* ------------------------------- one category in both modules of an archive
\* Archives whose behavior and resource module both have a blocks
\* subdirectory with a file f1.json: mergeWithDuplicateIdCheck copies both
\* to <BP>/blocks/<archive>/f1.json.
OverlapModules ==
  {<<PackModule("BP", PlainManifest, <<SubDir("blocks", IdFiles(<<a>>))>>),
     PackModule("RP", PlainManifest, <<SubDir("blocks", IdFiles(<<b>>))>>)>> :
     a \in Identifiers, b \in Identifiers}

OverlapScenarios ==
  {Scenario(a, <<>>, f, w) :
     a \in ArchiveLists(OverlapModules,
                        {<<PackModule("BP", PlainManifest,
                                      <<SubDir("blocks", IdFiles(<<"my:stone">>))>>)>>})
            \ {<<>>},
     f \in FlagValues, w \in {"core", "index"}}

InitOverlap == \E sc \in OverlapScenarios : Start(sc)

SpecOverlap == InitOverlap /\ [][Next]_vars

\* =========================================================== claims
\* The content files of the input, each <<archive, module, subdirectory,
\* entry>>, and the order in which one category's files are processed.
Entries ==
  {x \in (1..Len(input)) \X (1..2) \X (1..2) \X (1..4) :
     /\ x[2] <= Len(input[x[1]].modules)
     /\ x[3] <= Len(input[x[1]].modules[x[2]].subdirs)
     /\ x[4] <= Len(input[x[1]].modules[x[2]].subdirs[x[3]].files)}

DirOf(x) == input[x[1]].modules[x[2]].subdirs[x[3]]

FileOf(x) == DirOf(x).files[x[4]]

PathOf(x) ==
  <<input[x[1]].name, input[x[1]].modules[x[2]].name, DirOf(x).name, FileOf(x).name>>

Precedes(x, y) ==
  \/ x[1] < y[1]
  \/ x[1] = y[1] /\ x[2] < y[2]
  \/ x[1] = y[1] /\ x[2] = y[2] /\ x[3] < y[3]
  \/ x[1] = y[1] /\ x[2] = y[2] /\ x[3] = y[3] /\ x[4] < y[4]

Definitions(c) == {x \in Entries : DirOf(x).name = c /\ ~FileOf(x).isDir}

\* x is the first file of its category to declare its identifier.
FirstDefinition(x) ==
  \A w \in Definitions(DirOf(x).name) :
    FileOf(w).id = FileOf(x).id => w = x \/ Precedes(x, w)

\* Two files of one identifier-keyed category that declare the same
\* identifier, x the first to declare it, y of a later archive.
Collision(x, y) ==
  /\ DirOf(x).name \in IdCategories
  /\ x \in Definitions(DirOf(x).name)
  /\ y \in Definitions(DirOf(x).name)
  /\ FileOf(x).id = FileOf(y).id
  /\ x[1] < y[1]
  /\ FirstDefinition(x)

Collisions == {z \in Entries \X Entries : Collision(z[1], z[2])}

CopiedFrom == {out[p].from : p \in {q \in DOMAIN out : q[2] \in IdCategories}}

DestOf(x) == <<"BP", DirOf(x).name, input[x[1]].name, FileOf(x).name>>

Count(log, P(_)) == Cardinality({n \in 1..Len(log) : P(log[n])})

\* C1: after a run, of two files of one identifier-keyed category that
\* declare the same identifier, the one of the earlier archive is registered
\* and copied, the later one is not copied, and with
\* duplicateIdentifierWarnings on exactly one warning names the later file as
\* the duplicate and the earlier one as the original.
C1_FirstWriteWins ==
  pc = "done" =>
    \A z \in Collisions :
      LET x == z[1]
          y == z[2]
          named(m) == /\ m.kind = "duplicate"
                      /\ m.key = FileOf(y).id
                      /\ m.at = PathOf(y)
          both(m) == named(m) /\ m.original = PathOf(x)
      IN /\ Has(ids[DirOf(x).name], FileOf(x).id)
         /\ Get(ids[DirOf(x).name], FileOf(x).id) = PathOf(x)
         /\ DestOf(x) \in DOMAIN out
         /\ out[DestOf(x)] = [from |-> PathOf(x)]
         /\ PathOf(y) \notin CopiedFrom
         /\ config = "true" => Count(warnings, named) = 1 /\ Count(warnings, both) = 1

C1_Witness ==
  /\ pc = "done"
  /\ config = "true"
  /\ Collisions # {}

\* The modules of the input in the order of the two loops of mergePacks, and
\* those whose manifest mergePack has worked through.
RECURSIVE ModulesAfter(_, _)
ModulesAfter(a, m) ==
  LET next == ModuleAfter(a, m)
  IN IF next = <<0, 0>> THEN <<>> ELSE <<next>> \o ModulesAfter(next[1], next[2])

AllModules == ModulesAfter(1, 0)

IsProcessed(x) ==
  \/ pc \in {"finishUp", "done"}
  \/ pc = "subdirs" /\ (x[1] < addon \/ (x[1] = addon /\ x[2] <= pack))
  \/ pc = "manifest" /\ (x[1] < addon \/ (x[1] = addon /\ x[2] < pack))

Processed == SelectSeq(AllModules, IsProcessed)

ManifestOf(x) == input[x[1]].modules[x[2]].manifest

Greatest(versions) == CHOOSE v \in versions : \A w \in versions : SemverGte(v, w)

Max(numbers) == CHOOSE n \in numbers : \A k \in numbers : n >= k

\* The maximum of each component, taken on its own.
ComponentWiseMax(versions) ==
  <<Max({v[1] : v \in versions}), Max({v[2] : v \in versions}),
    Max({v[3] : v \in versions})>>

DeclaredMinimums ==
  {Baseline} \cup {ManifestOf(AllModules[n]).min_engine_version : n \in 1..Len(AllModules)}

ManifestsWritten ==
  /\ <<"BP", "manifest.json">> \in DOMAIN out
  /\ <<"RP", "manifest.json">> \in DOMAIN out

\* C4 as claimed: the min_engine_version of both output manifests is the
\* component-wise maximum of the baseline and the modules' declared versions.
C4_ComponentWiseMaximum ==
  pc = "done" =>
    /\ ManifestsWritten
    /\ out[<<"BP", "manifest.json">>].min_engine_version = ComponentWiseMax(DeclaredMinimums)
    /\ out[<<"RP", "manifest.json">>].min_engine_version = ComponentWiseMax(DeclaredMinimums)

\* C4 as amended: the min_engine_version of both output manifests is the
\* greatest, as a version (major first, then minor, then patch), of the
\* baseline 1.21.50 and the versions the processed modules declare; it is
\* never lower than the baseline.
C4_GreatestVersion ==
  pc = "done" =>
    /\ ManifestsWritten
    /\ out[<<"BP", "manifest.json">>].min_engine_version = Greatest(DeclaredMinimums)
    /\ out[<<"RP", "manifest.json">>].min_engine_version = Greatest(DeclaredMinimums)
    /\ SemverGte(out[<<"BP", "manifest.json">>].min_engine_version, Baseline)

C4_Witness ==
  /\ pc = "done"
  /\ ManifestsWritten
  /\ Greatest(DeclaredMinimums) # Baseline
  /\ Greatest(DeclaredMinimums) # ComponentWiseMax(DeclaredMinimums)
  /\ out[<<"BP", "manifest.json">>].min_engine_version = Greatest(DeclaredMinimums)

\* The dependencies with a module name that the processed modules declare,
\* in the order mergePack meets them.
RECURSIVE DeclaredBy(_, _)
DeclaredBy(modules, n) ==
  IF n = 0 THEN <<>>
  ELSE DeclaredBy(modules, n - 1)
         \o SelectSeq(ManifestOf(modules[n]).dependencies,
                      LAMBDA d : d.module_name # "")

Declared == DeclaredBy(Processed, Len(Processed))

VersionsOf(name, declared, n) ==
  {declared[k].version : k \in {j \in 1..n : declared[j].module_name = name}}

ModuleNames == {Declared[k].module_name : k \in 1..Len(Declared)}

\* C5: the version recorded for a module name is the greatest, by numeric
\* comparison, of the versions declared for it so far, whatever their order;
\* a dependency without module name is not recorded.
C5_HighestVersionRecorded ==
  pc \in {"manifest", "subdirs", "finishUp", "done"} =>
    /\ Keys(scriptModuleVersions) = ModuleNames
    /\ "" \notin Keys(scriptModuleVersions)
    /\ \A name \in ModuleNames :
         Get(scriptModuleVersions, name)
           = Greatest(VersionsOf(name, Declared, Len(Declared)))

\* Some module name was declared with a lower version after a higher one and
\* with a higher one after a lower one, and a nameless dependency was met.
C5_Witness ==
  /\ pc = "done"
  /\ \E j, k \in 1..Len(Declared) :
       /\ j < k
       /\ Declared[j].module_name = Declared[k].module_name
       /\ SemverGt(Declared[j].version, Declared[k].version)
       /\ Get(scriptModuleVersions, Declared[j].module_name) = Declared[j].version
  /\ \E n \in 1..Len(AllModules), d \in 1..2 :
       /\ d <= Len(ManifestOf(AllModules[n]).dependencies)
       /\ ManifestOf(AllModules[n]).dependencies[d].module_name = ""

SameMajorNotLower(v, r) == v[1] = r[1] /\ SemverGte(v, r)

\* v is not lower than r and has the components of r up to and including
\* the left-most one of r that is not zero (all three when r is 0.0.0).
InCaretRange(v, r) ==
  /\ SemverGte(v, r)
  /\ v[1] = r[1]
  /\ r[1] = 0 => v[2] = r[2]
  /\ r[1] = 0 /\ r[2] = 0 => v[3] = r[3]

Compatible(rule, v, r) ==
  IF rule = "caret" THEN InCaretRange(v, r) ELSE SameMajorNotLower(v, r)

\* The warnings mergePack owes for the declarations so far under a rule of
\* compatibility: one for each version declared for a module name whose
\* recorded version (the greatest declared before) it is not compatible with.
RECURSIVE Owed(_, _, _)
Owed(declared, n, rule) ==
  IF n = 0 THEN <<>>
  ELSE LET d == declared[n]
           earlier == VersionsOf(d.module_name, declared, n - 1)
       IN Owed(declared, n - 1, rule)
            \o (IF earlier # {} /\ ~Compatible(rule, d.version, Greatest(earlier))
                THEN <<IncompatibleMsg(d.module_name, d.version, Greatest(earlier))>>
                ELSE <<>>)

Incompatibilities == SelectSeq(warnings, LAMBDA m : m.kind = "incompatible")

\* C6 as claimed: a version declared for a module name that has a recorded
\* version draws a warning iff it has another major version than the
\* recorded one or is lower, major version 0 included.
C6_SameMajorNotLower ==
  pc \in {"manifest", "subdirs", "finishUp", "done"} =>
    Incompatibilities = Owed(Declared, Len(Declared), "same major")

\* C6 as amended: the warning is emitted iff the declared version is outside
\* the caret range of the recorded one: lower, or different in a component
\* up to the left-most non-zero component of the recorded version. For a
\* recorded major version of 1 or more that is: another major version, or
\* lower.
C6_CaretRange ==
  pc \in {"manifest", "subdirs", "finishUp", "done"} =>
    /\ Incompatibilities = Owed(Declared, Len(Declared), "caret")
    /\ \A n \in 1..Len(Incompatibilities) :
         Incompatibilities[n].b[1] > 0 =>
           ~SameMajorNotLower(Incompatibilities[n].a, Incompatibilities[n].b)

\* 1.2.0 then 2.0.0 has drawn a warning, 1.2.0 then 1.3.0 none, and 0.1.0
\* then 0.2.0 one.
C6_Witness ==
  /\ pc = "done"
  /\ \E n \in 1..Len(Incompatibilities) :
       Incompatibilities[n].a = <<0, 2, 0>> /\ Incompatibilities[n].b = <<0, 1, 0>>

\* The lines of the .lang files of a language, each <<entry, line>>, in the
\* order mergeTexts meets them; those that are neither blank nor a comment
\* nor pack metadata carry a key.
LangEntries(lang) ==
  {x \in Entries :
     /\ DirOf(x).name = "texts"
     /\ ~FileOf(x).isDir
     /\ EndsWithLang(FileOf(x).name)
     /\ Basename(FileOf(x).name) = lang}

RawLine(o) == FileOf(o[1]).lines[o[2]]

BeforeFirstEquals(line) ==
  IF \E n \in 1..Len(line) : line[n] = "="
  THEN SubSeq(line, 1, (CHOOSE n \in 1..Len(line) :
                          line[n] = "=" /\ \A k \in 1..(n - 1) : line[k] # "=") - 1)
  ELSE line

AfterFirstEquals(line) ==
  SubSeq(line, (CHOOSE n \in 1..Len(line) :
                  line[n] = "=" /\ \A k \in 1..(n - 1) : line[k] # "=") + 1,
         Len(line))

HasEquals(line) == \E n \in 1..Len(line) : line[n] = "="

KeyOf(o) == BeforeFirstEquals(Trim(RawLine(o)))

Occurrences(lang) ==
  {o \in LangEntries(lang) \X (1..2) :
     /\ o[2] <= Len(FileOf(o[1]).lines)
     /\ Trim(RawLine(o)) # <<>>
     /\ ~IsComment(Trim(RawLine(o)))
     /\ KeyOf(o) \notin {<<"pack.name">>, <<"pack.description">>}}

Earlier(o, q) == Precedes(o[1], q[1]) \/ (o[1] = q[1] /\ o[2] < q[2])

FirstOccurrence(lang, key) ==
  CHOOSE o \in Occurrences(lang) :
    /\ KeyOf(o) = key
    /\ \A q \in Occurrences(lang) : KeyOf(q) = key => q = o \/ Earlier(o, q)

Languages == {"en_US", "fr_FR"}

Flushed(lang) == out[<<"RP", "texts", LangFile(lang)>>].lines

\* The flushed file of the language holds the key exactly once, as
\* key=value.
HoldsOnce(lang, key, value) ==
  /\ <<"RP", "texts", LangFile(lang)>> \in DOMAIN out
  /\ Cardinality({n \in 1..Len(Flushed(lang)) :
                    BeforeFirstEquals(Flushed(lang)[n]) = key}) = 1
  /\ \E n \in 1..Len(Flushed(lang)) : Flushed(lang)[n] = key \o <<"=">> \o value

\* C7 as claimed: the flushed <language>.lang holds every key of the
\* language's .lang files once, with the value of the first-processed line
\* that has the key: everything after the first "=" of that line.
C7_ValueAfterFirstEquals ==
  pc = "done" =>
    \A lang \in Languages : \A o \in Occurrences(lang) :
      HasEquals(RawLine(o)) =>
        HoldsOnce(lang, KeyOf(o),
                  AfterFirstEquals(RawLine(FirstOccurrence(lang, KeyOf(o)))))

\* Everything after the first "=" of a line, up to the first line terminator
\* after it.
ToLineEnd(rest) ==
  IF \E n \in 1..Len(rest) : rest[n] \in LineTerminators
  THEN SubSeq(rest, 1, (CHOOSE n \in 1..Len(rest) :
                          /\ rest[n] \in LineTerminators
                          /\ \A k \in 1..(n - 1) : rest[k] \notin LineTerminators) - 1)
  ELSE rest

\* C7 as amended: the flushed <language>.lang holds every key of the
\* language's .lang files once, with the value of the first-processed line
\* that has the key: with the white space at the two ends of that line
\* removed, everything after its first "=" up to the first line terminator
\* (CR, U+2028, U+2029) left in it, and the text "undefined" when the line
\* has no "=".
C7_FirstTranslationWins ==
  pc = "done" =>
    \A lang \in Languages : \A o \in Occurrences(lang) :
      LET first == Trim(RawLine(FirstOccurrence(lang, KeyOf(o))))
      IN HoldsOnce(lang, KeyOf(o),
                   IF HasEquals(first) THEN ToLineEnd(AfterFirstEquals(first))
                   ELSE <<"undefined">>)

\* A key with two different values in two archives, and a value with a
\* second "=".
C7_Witness ==
  /\ pc = "done"
  /\ \E o, q \in Occurrences("en_US") :
       /\ o[1][1] < q[1][1]
       /\ KeyOf(o) = KeyOf(q)
       /\ RawLine(o) = <<"k", "=", "v", "=", "w">>
       /\ RawLine(q) = <<"k", "=", "w">>
  /\ <<"k", "=", "v", "=", "w">> \in {Flushed("en_US")[n] : n \in 1..Len(Flushed("en_US"))}

\* The subdirectories of the input, each <<archive, module, subdirectory>>,
\* and their fully-qualified names.
SubDirs ==
  {d \in (1..Len(input)) \X (1..2) \X (1..2) :
     /\ d[2] <= Len(input[d[1]].modules)
     /\ d[3] <= Len(input[d[1]].modules[d[2]].subdirs)}

SubDirAt(d) == input[d[1]].modules[d[2]].subdirs[d[3]]

FullNameOf(d) ==
  <<input[d[1]].name, input[d[1]].modules[d[2]].name, SubDirAt(d).name>>

\* The subdirectory names the switch of the core plugin has a case for.
CoreCases ==
  {"blocks", "entities", "items", "models", "recipes", "scripts", "texts", "textures"}

\* The hook of strategy k returns true for a subdirectory of this name.
ReturnsTrue(k, name) ==
  /\ plugins[k].hook
  /\ IF plugins[k].name = "core" THEN name \in CoreCases ELSE name \in plugins[k].claims

\* The indices of the strategies that have a mergeSubDir hook, in
\* registration order.
Hooks == SelectSeq([k \in 1..Len(plugins) |-> k], LAMBDA k : plugins[k].hook)

\* mergePackSubDir has returned for subdirectory d.
Dispatched(d) ==
  \/ pc \in {"finishUp", "done"}
  \/ pc \in {"manifest", "subdirs"} /\ (d[1] < addon \/ (d[1] = addon /\ d[2] < pack))
  \/ pc = "subdirs" /\ d[1] = addon /\ d[2] = pack /\ tasks[d[3]].pos = "done"

CouldNotBeMerged(d) ==
  Count(manualMergesRequired,
        LAMBDA r : r = [subject |-> FullNameOf(d),
                        reason |-> "Subdirectory could not be merged."])

\* C8: once mergePackSubDir has returned for a subdirectory, the mergeSubDir
\* hook of every strategy that has one has been invoked for it, in
\* registration order, also after a hook returned true; and the manual-merge
\* log holds the subdirectory's full name with the reason "Subdirectory
\* could not be merged." exactly once if no hook returned true for it, and
\* not at all otherwise (nor before mergePackSubDir has returned).
C8_EveryStrategyInvoked ==
  impl = "core" /\ pc \in {"manifest", "subdirs", "finishUp", "done"} =>
    /\ \A i \in 1..Len(tasks) : tasks[i].pos = "done" => tasks[i].invoked = Hooks
    /\ \A d \in SubDirs :
         CouldNotBeMerged(d) =
           IF Dispatched(d) /\ ~\E k \in 1..Len(plugins) : ReturnsTrue(k, SubDirAt(d).name)
           THEN 1 ELSE 0

C8_Witness ==
  /\ impl = "core"
  /\ pc = "subdirs"
  /\ \E i \in 1..Len(tasks), j \in 1..Len(tasks) :
       /\ tasks[i].pos = "done"
       /\ ReturnsTrue(1, SubDirOf(Now, i).name)
       /\ Len(tasks[i].invoked) >= 2
       /\ tasks[j].pos = "done"
       /\ CouldNotBeMerged(<<addon, pack, j>>) = 1

\* What the input alone determines: the first definition of every
\* identifier, geometry and translation key, in processing order.
FirstIds(c) ==
  {[key |-> FileOf(x).id, value |-> PathOf(x)] :
     x \in {w \in Definitions(c) : FirstDefinition(w)}}

FirstCopies == UNION {{PathOf(x) : x \in {w \in Definitions(c) : FirstDefinition(w)}} :
                        c \in IdCategories}

Models == {x \in Definitions("models") : FileOf(x).format = "1.12.0"}

FirstGeometries == {FileOf(x).id : x \in Models}

ValueOf(line) ==
  IF HasEquals(line) THEN ToLineEnd(AfterFirstEquals(line)) ELSE <<"undefined">>

FirstTranslations(lang) ==
  {[key |-> KeyOf(o), value |-> ValueOf(Trim(RawLine(FirstOccurrence(lang, KeyOf(o)))))] :
     o \in Occurrences(lang)}

EntriesOf(map) == {map[n] : n \in 1..Len(map)}

IsDuplicate(m) == m.kind = "duplicate"

\* C2: what a run of core.ts leaves in the identifier registries, the
\* geometries, the translation tables and the copied files is determined by
\* the input alone (the first definition wins every collision), whatever
\* duplicateIdentifierWarnings is; with the flag false no collision is
\* warned of or counted, with the flag true at least one is when the input
\* has a collision.
C2_FlagChangesWarningsOnly ==
  impl = "core" /\ pc = "done" =>
    /\ \A c \in IdCategories : EntriesOf(ids[c]) = FirstIds(c)
    /\ CopiedFrom = FirstCopies
    /\ Keys(geometries) = FirstGeometries
    /\ \A lang \in Languages :
         IF Has(texts, lang)
         THEN EntriesOf(Get(texts, lang)) = FirstTranslations(lang)
         ELSE LangEntries(lang) = {}
    /\ config = "false" =>
         /\ Count(warnings, IsDuplicate) = 0
         /\ warningsCount = Len(warnings)
    /\ config = "true" =>
         /\ Collisions # {} => Count(warnings, IsDuplicate) > 0
         /\ warningsCount = Len(warnings)

C2_Witness ==
  /\ impl = "core"
  /\ pc = "done"
  /\ config = "false"
  /\ Collisions # {}
  /\ \A z \in Collisions : PathOf(z[2]) \notin CopiedFrom

\* The content that is not supported: an entry of a texts subdirectory that
\* is a directory, or a file that is neither languages.json nor a .lang file;
\* a model file of another format version than 1.12.0 (core.ts); a
\* subdirectory no strategy has a case for.
UnsupportedEntries ==
  {x \in Entries :
     \/ /\ DirOf(x).name = "texts"
        /\ \/ FileOf(x).isDir
           \/ ~EndsWithLang(FileOf(x).name) /\ FileOf(x).name # "languages.json"
     \/ /\ impl = "core"
        /\ DirOf(x).name = "models"
        /\ ~FileOf(x).isDir
        /\ FileOf(x).format # "1.12.0"}

UnsupportedSubDirs ==
  {d \in SubDirs :
     IF impl = "core"
     THEN ~\E k \in 1..Len(plugins) : ReturnsTrue(k, SubDirAt(d).name)
     ELSE SubDirAt(d).name \notin (CoreCases \ {"models", "textures"})}

RecordsOf(subject) ==
  Count(manualMergesRequired, LAMBDA r : r.subject = subject)

\* C9: unsupported content fails no mergePackSubDir promise, and after the
\* run every unsupported entry and subdirectory has exactly one manual-merge
\* record and has added nothing to the translation tables or the geometries.
C9_UnsupportedNeverFails ==
  /\ \A i \in 1..Len(tasks) :
       tasks[i].pos = "failed" => SubDirOf(Now, i).name \notin {"texts", "models"}
  /\ pc = "done" =>
       /\ \A x \in UnsupportedEntries : RecordsOf(PathOf(x)) = 1
       /\ \A d \in UnsupportedSubDirs : RecordsOf(FullNameOf(d)) = 1
       /\ \A x \in UnsupportedEntries :
            DirOf(x).name = "texts" /\ Has(texts, FileOf(x).name) =>
              LangEntries(FileOf(x).name) # {}
       /\ Keys(geometries) \subseteq FirstGeometries

\* C10: at the end of a run the terminal report enumerates every
\* (subject, reason) pair recorded through requireManualMerge, in addition
\* to the warning count.
C10_ManualMergesReported ==
  pc = "done" =>
    /\ \E n \in 1..Len(report) : report[n] = [kind |-> "completed", warnings |-> warningsCount]
    /\ \A r \in EntriesOf(manualMergesRequired) :
         \E n \in 1..Len(report) :
           /\ report[n].kind = "manual merge"
           /\ report[n].subject = r.subject
           /\ report[n].reason = r.reason

\* C3: every registry and the translation table is empty when a run starts,
\* and the winners and the copied files of a run are those the run's input
\* alone determines, whatever an earlier run has registered.
C3_EmptyAtStartOfRun ==
  /\ pc = "decompress" => ids = EmptyIds /\ texts = <<>> /\ geometries = <<>>
  /\ pc = "done" =>
       /\ \A c \in IdCategories : EntriesOf(ids[c]) = FirstIds(c)
       /\ CopiedFrom = FirstCopies

IsManual(m) == m.kind = "manual"

\* C11: the warning counter is the number of warnings logged, of which one
\* for every manual-merge record, also while the tasks of a module
\* interleave; the terminal report states that number, and states 0 if and
\* only if no warning and no manual-merge record was emitted.
C11_CountsEveryWarning ==
  /\ warningsCount = Len(warnings)
  /\ Count(warnings, IsManual) = Len(manualMergesRequired)
  /\ pc = "done" =>
       /\ report = <<[kind |-> "completed", warnings |-> Len(warnings)]>>
       /\ report[1].warnings = 0 <=> warnings = <<>> /\ manualMergesRequired = <<>>

C11_Witness ==
  /\ pc = "done"
  /\ Len(manualMergesRequired) >= 1
  /\ Count(warnings, IsDuplicate) >= 1
  /\ report[1].warnings = Len(manualMergesRequired) + Count(warnings, IsDuplicate)

\* What a run leaves on the file system, and the strategy hooks it invoked.
FileSystem == <<dirs, tmp, out>>

HooksInvoked == <<tasks, fin>>

\* C12: mergePacks called when the output root exists fails without a change
\* to the file system, without decompressing an archive and without
\* invoking a strategy hook, and nothing happens after that.
C12_ExistingOutDirAborts ==
  [][/\ pc = "idle" /\ <<>> \in dirs =>
          /\ pc' = "failed"
          /\ UNCHANGED <<FileSystem, HooksInvoked, decompressed, addon, pack>>
     /\ ~(pc = "failed" /\ addon = 0)]_vars

C12_Witness ==
  /\ pc = "failed"
  /\ runs = 1
  /\ addon = 0
  /\ dirs = {<<>>}
  /\ ~tmp
  /\ out = <<>>

\* The input has a content file of an identifier-keyed subdirectory without
\* a "minecraft:" key, or a manifest that cannot be read.
ParseError ==
  \/ \E x \in Entries :
       DirOf(x).name \in IdCategories /\ ~FileOf(x).isDir /\ FileOf(x).id = NoRootKey
  \/ \E n \in 1..Len(AllModules) : ~ManifestOf(AllModules[n]).ok

Holds(files, earlier) ==
  /\ DOMAIN earlier \subseteq DOMAIN files
  /\ \A p \in DOMAIN earlier : files[p] = earlier[p]

\* C13: a run whose input has a parse error never reaches finalization;
\* when it has failed it has invoked no finishUp hook, has written no
\* manifest and has not reported; a failed run stays failed, and what it has
\* written stays where it is.
C13_ParseErrorAborts ==
  /\ [](ParseError => pc \notin {"finishUp", "done"})
  /\ [](pc = "failed" /\ ParseError =>
          /\ fin = 0
          /\ report = <<>>
          /\ <<"BP", "manifest.json">> \notin DOMAIN out
          /\ <<"RP", "manifest.json">> \notin DOMAIN out)
  /\ [][pc = "failed" => pc' = "failed" /\ Holds(out', out) /\ dirs \subseteq dirs']_vars

C13_Witness ==
  /\ pc = "failed"
  /\ ParseError
  /\ \E i \in 1..Len(tasks) : tasks[i].pos = "failed"
  /\ \E p \in DOMAIN out : p[2] = "blocks"

\* The entries of the files of one texture table in the input, each
\* <<file, position in the file>>, and the first of each key in processing
\* order.
TextureOccurrences(table) ==
  {o \in Entries \X (1..2) :
     /\ DirOf(o[1]).name = "textures"
     /\ FileOf(o[1]).name = table
     /\ o[2] <= Len(FileOf(o[1]).entries)}

TextureAt(o) == FileOf(o[1]).entries[o[2]]

FirstTextures(table) ==
  {TextureAt(o) : o \in {q \in TextureOccurrences(table) :
                          \A w \in TextureOccurrences(table) :
                            TextureAt(w).key = TextureAt(q).key => w = q \/ Earlier(q, w)}}

TexturePath(table) == <<"RP", "textures", table>>

\* C14: after a run of core.ts, each of flipbook_textures.json,
\* item_texture.json and terrain_texture.json in the output's textures
\* directory, when a package had entries for it, is the combined file written
\* in finalization, not a package's copy, and holds exactly one entry for
\* every key found in the packages' files of that name, the one of the
\* first-processed package that has the key.
C14_TextureTablesCombined ==
  impl = "core" /\ pc = "done" =>
    \A k \in 1..3 :
      LET table == TextureFiles[k]
      IN TextureOccurrences(table) # {} =>
           /\ TexturePath(table) \in DOMAIN out
           /\ out[TexturePath(table)].from = NoPath
           /\ EntriesOf(out[TexturePath(table)].entries) = FirstTextures(table)
           /\ Len(out[TexturePath(table)].entries) = Cardinality(FirstTextures(table))

\* Two packages with entries for one table, one key in both.
C14_Witness ==
  /\ impl = "core"
  /\ pc = "done"
  /\ \E o, q \in TextureOccurrences("terrain_texture.json") :
       /\ o[1][1] < q[1][1]
       /\ TextureAt(o).key = TextureAt(q).key
       /\ TextureAt(o).value # TextureAt(q).value
  /\ Cardinality(FirstTextures("terrain_texture.json")) >= 2

\* The modules that declare a script module with an entry, in processing
\* order, and the import the generated entry file is to have for each.
Contributors == SelectSeq(AllModules, LAMBDA x : ManifestOf(x).entry # <<>>)

Relocated(x) == <<input[x[1]].name>> \o Tail(ManifestOf(x).entry)

ScriptsIndex == <<"BP", "scripts", "index.js">>

BpModules == out[<<"BP", "manifest.json">>].modules

\* The module has the file of its entry in its scripts subdirectory.
HasEntryFile(x) ==
  \E d \in 1..Len(input[x[1]].modules[x[2]].subdirs) :
    /\ input[x[1]].modules[x[2]].subdirs[d].name = "scripts"
    /\ \E f \in 1..Len(input[x[1]].modules[x[2]].subdirs[d].files) :
         <<"scripts", input[x[1]].modules[x[2]].subdirs[d].files[f].name>>
           = ManifestOf(x).entry

\* C15: the behavior manifest of the output lists a data module first, and
\* a script module with the entry scripts/index.js if and only if a
\* processed module declared a script module with an entry; scripts/index.js
\* then imports, in processing order, one path for every such module: for
\* the entry scripts/<rest> of package P the path P/<rest>, which is where
\* the file of P's scripts subdirectory was copied to.
C15_ScriptEntriesRelocated ==
  pc = "done" =>
    /\ BpModules[1] = [type |-> "data", entry |-> <<>>]
    /\ \A n \in 2..Len(BpModules) : BpModules[n].type # "data"
    /\ IF Contributors # <<>>
       THEN /\ Len(BpModules) = 2
            /\ BpModules[2] = [type |-> "script", entry |-> <<"scripts", "index.js">>]
            /\ ScriptsIndex \in DOMAIN out
            /\ out[ScriptsIndex].imports
                 = [n \in 1..Len(Contributors) |-> Relocated(Contributors[n])]
            /\ \A n \in 1..Len(Contributors) :
                 HasEntryFile(Contributors[n]) =>
                   /\ <<"BP", "scripts">> \o Relocated(Contributors[n]) \in DOMAIN out
                   /\ out[<<"BP", "scripts">> \o Relocated(Contributors[n])].from
                        = <<input[Contributors[n][1]].name,
                            input[Contributors[n][1]].modules[Contributors[n][2]].name>>
                            \o ManifestOf(Contributors[n]).entry
       ELSE /\ Len(BpModules) = 1
            /\ ScriptsIndex \notin DOMAIN out

C15_Witness ==
  /\ pc = "done"
  /\ Len(Contributors) >= 2
  /\ \A n \in 1..Len(Contributors) : HasEntryFile(Contributors[n])
  /\ Len(out[ScriptsIndex].imports) >= 2

Bp == out[<<"BP", "manifest.json">>]

Rp == out[<<"RP", "manifest.json">>]

\* C16: the behavior manifest depends on the header uuid of the resource
\* manifest and the resource manifest on that of the behavior manifest; the
\* other dependencies of the behavior manifest are one for every module name
\* a processed manifest declared, with the greatest version declared for it;
\* the resource manifest has one module, of type resources.
C16_ManifestsCrossLinked ==
  pc = "done" =>
    /\ Bp.uuid # Rp.uuid
    /\ Bp.dependencies[1] = [uuid |-> Rp.uuid, module_name |-> "", version |-> <<1, 0, 0>>]
    /\ Rp.dependencies = <<[uuid |-> Bp.uuid, module_name |-> "", version |-> <<1, 0, 0>>]>>
    /\ Len(Bp.dependencies) = 1 + Cardinality(ModuleNames)
    /\ \A name \in ModuleNames :
         \E n \in 2..Len(Bp.dependencies) :
           Bp.dependencies[n]
             = [uuid |-> "", module_name |-> name,
                version |-> Greatest(VersionsOf(name, Declared, Len(Declared)))]
    /\ Rp.modules = <<[type |-> "resources", entry |-> <<>>]>>

C16_Witness ==
  /\ pc = "done"
  /\ Cardinality(ModuleNames) >= 2
  /\ \E name \in ModuleNames : Cardinality(VersionsOf(name, Declared, Len(Declared))) >= 2

\* The archive a registered path is of.
ArchiveOf(path) == CHOOSE a \in 1..Len(input) : input[a].name = path[1]

\* The entries of a registry are in the order of their archives.
InArchiveOrder(registry) ==
  \A j, k \in 1..Len(registry) :
    j < k => ArchiveOf(registry[j].value) <= ArchiveOf(registry[k].value)

\* C17: mergePack is called for the modules in the order of the input and
\* of each archive's modules, for the next one only when every subdirectory
\* task of the one before has completed; so the entries of each identifier
\* registry are in the order of their archives.
C17_DiscoveryOrder ==
  /\ [][<<addon, pack>>' # <<addon, pack>> =>
          /\ <<addon, pack>>' = ModuleAfter(addon, pack)
          /\ \A i \in 1..Len(tasks) : tasks[i].pos = "done"
          /\ tasks' = <<>>]_vars
  /\ [](\A i \in 1..Len(tasks) : tasks[i].pos # "new" => pc \in {"subdirs", "failed"})
  /\ [](\A c \in IdCategories : InArchiveOrder(ids[c]))

C17_Witness ==
  /\ pc = "subdirs"
  /\ addon = 2
  /\ \E c \in IdCategories :
       \E j, k \in 1..Len(ids[c]) :
         ArchiveOf(ids[c][j].value) = 1 /\ ArchiveOf(ids[c][k].value) = 2
  /\ \E i \in 1..Len(tasks) : tasks[i].pos # "done"

\* The paths of the three texture tables in the output.
TablePaths == {TexturePath(TextureFiles[k]) : k \in 1..3}

\* The paths of the combined output files: the files of <RP>/texts,
\* <RP>/models/geometries.json and the three texture tables.
CombinedPaths ==
  {<<"RP", "texts", LangFile(l)>> : l \in {"en_US", "fr_FR"}}
    \cup {<<"RP", "texts", "languages.json">>, <<"RP", "models", "geometries.json">>}
    \cup TablePaths

\* What finishUp writes, as opposed to a table file that cp has copied.
IsCombined(files, path) ==
  /\ path \in DOMAIN files
  /\ path \in TablePaths => files[path].from = NoPath

\* The step writes the file of the path.
Written(path) ==
  /\ path \in DOMAIN out'
  /\ path \in DOMAIN out => out'[path] # out[path]

ManifestPaths == {<<"BP", "manifest.json">>, <<"RP", "manifest.json">>}

\* The phases but for the combined files: merging starts when every archive
\* is decompressed; the finishUp hooks run one after another, each once,
\* when the tasks of the last module are done; the manifests are written
\* after the last hook, with the report.
InPhases ==
  /\ [](pc \in {"manifest", "subdirs", "finishUp", "done"} =>
          decompressed = 1..Len(input))
  /\ [][fin' # fin =>
          /\ fin' = fin + 1
          /\ pc' = "finishUp"
          /\ \A i \in 1..Len(tasks) : tasks[i].pos = "done"]_vars
  /\ [](fin > 0 => pc \in {"finishUp", "done", "failed"} /\ tasks = <<>>)
  /\ [](ManifestPaths \cap DOMAIN out # {} =>
          pc = "done" /\ fin = Len(Strategies(Now)) + 1)
  /\ [][report' # report =>
          pc' = "done" /\ ManifestPaths \subseteq DOMAIN out']_vars

CoreInvocations(i) ==
  {n \in 1..Len(tasks[i].invoked) : plugins[tasks[i].invoked[n]].name = "core"}

\* C19: when mergePackSubDir has returned for a subdirectory, mergeSubDir of
\* the core strategy has been invoked for it once, whatever plugin list the
\* caller has passed.
C19_ConsumedOnce ==
  \A i \in 1..Len(tasks) :
    impl = "core" /\ tasks[i].pos = "done" => Cardinality(CoreInvocations(i)) = 1

\* The maps that setOrDuplicateIdWarning checks and sets: the identifier
\* registries, the geometries, the texture tables and the translations of
\* each language.
TableNames ==
  IdCategories \cup {"geometries"} \cup {TextureFiles[k] : k \in 1..3} \cup Languages

Table(name) ==
  CASE name \in IdCategories -> ids[name]
    [] name = "geometries" -> geometries
    [] name \in Languages -> IF Has(texts, name) THEN Get(texts, name) ELSE <<>>
    [] OTHER -> textureData[name]

\* The tasks of the module being merged that are suspended.
Suspended == {i \in 1..Len(tasks) : tasks[i].pos \notin {"new", "done", "failed"}}

\* C20: whatever the order in which the suspended tasks of a module are
\* resumed, no map holds two entries of one key, an entry that is set stays
\* as it is, and the entries of a step are set by the one task that is
\* resumed in it.
C20_CheckThenInsertAtomic ==
  /\ [](\A t \in TableNames :
          \A j, k \in 1..Len(Table(t)) : j # k => Table(t)[j].key # Table(t)[k].key)
  /\ [][\A t \in TableNames :
          /\ Len(Table(t)') >= Len(Table(t))
          /\ \A j \in 1..Len(Table(t)) : Table(t)'[j] = Table(t)[j]
          /\ Len(Table(t)') > Len(Table(t)) =>
                \E i \in Suspended :
                  \A j \in 1..Len(tasks) : j # i => tasks'[j] = tasks[j]]_vars

C20_Witness ==
  /\ pc = "subdirs"
  /\ Cardinality(Suspended) = 2
  /\ Has(ids["blocks"], "my:stone")
  /\ Has(ids["items"], "my:stone")
  /\ \E n \in 1..Len(warnings) : warnings[n].kind = "duplicate"

\* The model files of another format version than "1.12.0".
UnsupportedModels ==
  {x \in Definitions("models") : FileOf(x).format # "1.12.0"}

\* x is the first accepted model file to declare its geometry.
FirstModel(x) ==
  /\ x \in Models
  /\ \A w \in Models : FileOf(w).id = FileOf(x).id => w = x \/ Precedes(x, w)

GeometriesPath == <<"RP", "models", "geometries.json">>

\* The manual-merge records of a model file name its format version.
NamesVersion(x) ==
  \A n \in 1..Len(manualMergesRequired) :
    manualMergesRequired[n].subject = PathOf(x) =>
      manualMergesRequired[n].reason = UnsupportedFormat(FileOf(x).format)

ContentLines(lang) ==
  {o \in LangEntries(lang) \X (1..2) :
     /\ o[2] <= Len(FileOf(o[1]).lines)
     /\ Trim(RawLine(o)) # <<>>
     /\ ~IsComment(Trim(RawLine(o)))}

PackMetadata == {<<"pack.name">>, <<"pack.description">>}

LanguagesPath == <<"RP", "texts", "languages.json">>

\* The lines of files of a texts subdirectory that mergeTexts is not to read.
OtherLines ==
  {x \in Entries :
     /\ DirOf(x).name = "texts"
     /\ ~FileOf(x).isDir
     /\ ~EndsWithLang(FileOf(x).name)
     /\ FileOf(x).lines # <<>>}

\* C22: in every state of a run of core.ts, every language of the
\* translation tables is that of a .lang file of the input; every entry of
\* its table is the key and value of a line of such a file that is neither
\* blank nor a comment, and its key is neither "pack.name" nor
\* "pack.description"; and languages.json, once written, lists the languages
\* of the tables, and is written by a run that ends with a table.
C22_TranslationTables ==
  impl = "core" =>
    /\ \A n \in 1..Len(texts) :
         /\ LangEntries(texts[n].key) # {}
         /\ \A k \in 1..Len(texts[n].value) :
              /\ texts[n].value[k].key \notin PackMetadata
              /\ \E o \in ContentLines(texts[n].key) :
                   /\ texts[n].value[k].key = KeyOf(o)
                   /\ texts[n].value[k].value = ValueOf(Trim(RawLine(o)))
    /\ LanguagesPath \in DOMAIN out =>
         out[LanguagesPath].languages = [n \in 1..Len(texts) |-> texts[n].key]
    /\ pc = "done" => (texts # <<>> <=> LanguagesPath \in DOMAIN out)

C22_Witness ==
  /\ impl = "core"
  /\ pc = "done"
  /\ LanguagesPath \in DOMAIN out
  /\ OtherLines # {}
  /\ \E o \in ContentLines("en_US") : KeyOf(o) \in PackMetadata
  /\ \E n \in 1..Len(texts) : texts[n].value # <<>>

\* C23: in a run, minEngineVersionStr is never lower than 1.21.50 and no
\* step lowers it, and no step removes a module name from
\* scriptModuleVersions or lowers its version.
C23_VersionsMonotonic ==
  /\ [](SemverGte(minEngineVersionStr, Baseline))
  /\ [][SemverGte(minEngineVersionStr', minEngineVersionStr)]_vars
  /\ [][\A name \in Keys(scriptModuleVersions) :
          /\ Has(scriptModuleVersions', name)
          /\ SemverGte(Get(scriptModuleVersions', name),
                       Get(scriptModuleVersions, name))]_vars

\* The module being merged declares a lower min_engine_version and a lower
\* version of a dependency than those kept.
C23_Witness ==
  /\ pc = "subdirs"
  /\ addon = 2
  /\ SemverGt(minEngineVersionStr, input[addon].modules[pack].manifest.min_engine_version)
  /\ SemverGt(minEngineVersionStr, Baseline)
  /\ \E d \in 1..Len(input[addon].modules[pack].manifest.dependencies) :
       LET dep == input[addon].modules[pack].manifest.dependencies[d]
       IN /\ Has(scriptModuleVersions, dep.module_name)
          /\ SemverGt(Get(scriptModuleVersions, dep.module_name), dep.version)

\* The strategies of the caller, by their place in the list.
CallerStrategies == {k \in 1..Len(plugins) : plugins[k].name # "core"}

\* Task i has invoked the hooks in the order of the list.
InListOrder(i) ==
  \A n, m \in 1..Len(tasks[i].invoked) :
    n < m => tasks[i].invoked[n] < tasks[i].invoked[m]

\* C24 as stated: for every subdirectory the mergeSubDir hook of the core
\* strategy is invoked before that of any strategy of the caller.
C24_CoreInvokedFirst ==
  impl = "core" =>
    \A i \in 1..Len(tasks) :
      \A n, m \in 1..Len(tasks[i].invoked) :
        tasks[i].invoked[n] \notin CallerStrategies
          /\ tasks[i].invoked[m] \in CallerStrategies => n < m

\* C24: in a run of core.ts the strategies are those of the caller, in the
\* caller's order, and then the core strategy; for every subdirectory the
\* mergeSubDir hooks are invoked in that order, so the core's after those of
\* the caller; and the core's finishUp, the only one to write, runs when
\* those of the caller have returned.
C24_CoreInvokedLast ==
  /\ [](impl = "core" /\ pc # "idle" =>
          /\ plugins # <<>>
          /\ CallerStrategies = 1..(Len(plugins) - 1)
          /\ \A i \in 1..Len(tasks) :
               /\ InListOrder(i)
               /\ \A n \in 1..Len(tasks[i].invoked) :
                    tasks[i].invoked[n] \notin CallerStrategies =>
                      \A k \in CallerStrategies :
                        plugins[k].hook =>
                          \E m \in 1..(n - 1) : tasks[i].invoked[m] = k)
  /\ [][impl = "core" /\ pc = "finishUp" /\ fin <= Len(plugins) /\ out' # out =>
          fin = Len(plugins)]_vars

C24_Witness ==
  /\ impl = "core"
  /\ pc = "done"
  /\ \E k \in CallerStrategies : plugins[k].hook
  /\ LanguagesPath \in DOMAIN out

\* C25: no step of a run changes the caller's configuration object or the
\* caller's plugin list.
C25_InputsReadOnly == [][config' = config /\ plugins' = plugins]_vars

\* The files the output holds copies of.
Copied == {out[p].from : p \in {q \in DOMAIN out : Len(q) = 4 /\ q[2] \in IdCategories}}

\* C26: after a run, the output holds a copy of the file that registered
\* each identifier of the block, entity, item and recipe registries.
C26_RegistryAndOutputAgree ==
  pc = "done" =>
    \A c \in IdCategories :
      \A n \in 1..Len(ids[c]) : ids[c][n].value \in Copied

\* C27: once mergePacks has failed, no step writes to the output
\* directories, the registries, the manual-merge log or the warning counter.
C27_AbortedRunQuiescent ==
  [][pc = "failed" =>
       UNCHANGED <<out, dirs, ids, texts, geometries, textureData,
                   manualMergesRequired, warningsCount>>]_vars
====
